---- MODULE Spec2Model ----
(***************************************************************************)
(* Echoes of Asteria: the turn-based text adventure, as a state machine.   *)
(*                                                                         *)
(* The repository holds the game twice: the package                        *)
(* src/src/echoes_of_asteria (started by run_game.py) and the single-file  *)
(* src/mystic_dungeon.py.  The variable impl says which of the two is      *)
(* running; it is chosen at start and never changes.  Every operation is   *)
(* translated from the implementation that impl names.                     *)
(*                                                                         *)
(* Python's random module is a nondeterministic choice here.               *)
(* mystic_dungeon.py seeds it with 42 when the world is built, so its key  *)
(* placement (the first draw) is fixed; its later draws depend on how many *)
(* draws the commands before made, and are left nondeterministic.          *)
(***************************************************************************)
EXTENDS Integers, Sequences, FiniteSets, TLC

VARIABLES
    impl,        \* "asteria" (the package) or "mystic" (mystic_dungeon.py)
    player,      \* the Player object's fields
    rooms,       \* World.rooms: position -> mutable room state
    running,     \* Game.running
    turn_count,  \* Game.turn_count
    savefile,    \* savegame.json: <<>> when absent, <<data>> when written,
                 \* <<data, damage>> when damaged since
    mode,        \* where the process waits for input: "offer", "main",
                 \* "combat", "shop", "riddle"; or how it ended: "ended"
                 \* (status 0), "crashed" (an uncaught exception, status 1)
    last,        \* the command the last step dispatched, with its arguments
    log,         \* the attacks the last step resolved, in order
    calls        \* the calls made of Player.gain_xp by itself, each with the
                 \* player it found and the amount

vars == <<impl, player, rooms, running, turn_count, savefile, mode, last, log, calls>>

-----------------------------------------------------------------------------
(* Bounds of the model *)

\* moves a run may make (turn_count is unbounded in the program)
MaxTurn == 3
\* number of items the inventory may grow to by buying
MaxInv == 5
\* most hp the player has left where an observed fight starts
MaxStartHp == 4
\* largest amount of xp one call of gain_xp is given
MaxGrant == 50
\* highest level of the player the calls of gain_xp start from
MaxStartLevel == 2
\* most hp an enemy has left where an observed hunt starts
MaxFoeHp == 3

-----------------------------------------------------------------------------
(* Arithmetic as Python computes it *)

Max(a, b) == IF a >= b THEN a ELSE b
Min(a, b) == IF a <= b THEN a ELSE b

Pow2Table == [k \in 0..24 |-> 2 ^ k]

\* int(x * 1.4) for x >= 0.  The double nearest 1.4 lies below 1.4, so for
\* the multiples of 5 in (1.25 * 2^k, 2^(k+1) / 1.4) the product rounds to a
\* double below the exact integer and int() yields one less than
\* floor(1.4 x): int(45 * 1.4) = 62.
RoundsBelow14(x) ==
    /\ x % 5 = 0
    /\ \E k \in 0..24 : 4 * x > 5 * Pow2Table[k] /\ 7 * x < 10 * Pow2Table[k]
IntTimes14(x) == ((14 * x) \div 10) - (IF RoundsBelow14(x) THEN 1 ELSE 0)

\* int(x * 1.5), int(x * 0.6), int(x * 0.2), int(x * 1.8) for x >= 0: the
\* double products of these never fall below the exact integer part.
IntTimes15(x) == (15 * x) \div 10
IntTimes06(x) == (6 * x) \div 10
IntTimes02(x) == (2 * x) \div 10
IntTimes18(x) == (18 * x) \div 10

-----------------------------------------------------------------------------
(* Items.  oid is the Python object's identity: two Item objects with equal *)
(* fields are different objects, and Item defines no __eq__, so == and !=   *)
(* on items compare oid.                                                    *)

MkItem(id, kind, power, value, oid) ==
    [id |-> id, kind |-> kind, power |-> power, value |-> value, oid |-> oid]

\* None in an equipment slot
NoItem == MkItem("", "", 0, 0, 0)

\* Item.to_dict (with json.dump/json.load): the fields, without the object
ItemToDict(it) == [id |-> it.id, kind |-> it.kind, power |-> it.power, value |-> it.value]

\* Item.from_dict: a new object, distinct from every live one
ItemFromDict(d, oid) == MkItem(d.id, d.kind, d.power, d.value, oid)

\* Game.__init__: the starter inventory and the merchant's catalog
StarterItems ==
    << MkItem("knife", "weapon", 2, 4, 1),
       MkItem("leather_vest", "armor", 1, 6, 2),
       MkItem("bread", "consumable", 8, 2, 3) >>

merchant_goods ==
    << MkItem("iron_sword", "weapon", 4, 40, 4),
       MkItem("chain_mail", "armor", 3, 50, 5),
       MkItem("potion", "consumable", 25, 20, 6) >>

\* World._generate / World._create_world: the items lying in the rooms
AncientCoin == MkItem("ancient_coin", "misc", 0, 100, 7)
Herb        == MkItem("herb", "consumable", 15, 5, 8)
StrangeGem  == MkItem("strange_gem", "misc", 0, 200, 9)
Fish        == MkItem("fish", "consumable", 8, 3, 10)
RustyKey    == MkItem("rusty_key", "key", 0, 0, 11)

\* What the player may type for an item: a word of its name, a word no item
\* name holds, or nothing.  find_item and cmd_take match with
\* `name in it.name.lower()`.
QueryIds(q) ==
    CASE q = "knife"  -> {"knife"}         \* Traveler's Knife
      [] q = "vest"   -> {"leather_vest"}  \* Leather Vest
      [] q = "bread"  -> {"bread"}         \* Stale Bread
      [] q = "sword"  -> {"iron_sword"}    \* Iron Sword
      [] q = "mail"   -> {"chain_mail"}    \* Chain Mail
      [] q = "potion" -> {"potion"}        \* Minor Potion
      [] q = "herb"   -> {"herb"}          \* Healing Herb
      [] q = "coin"   -> {"ancient_coin", "coin"}  \* Ancient Coin, Silver Coin
      [] q = "key"    -> {"rusty_key"}     \* Rusty Key
      [] q = "gem"    -> {"strange_gem", "echo_gem"}
      [] q = "fish"   -> {"fish"}          \* Lucky Fish
      [] OTHER        -> {}                \* "zzz": in no item's name

\* index of the first item of seq that query q matches, 0 when none
FirstMatch(seq, q) ==
    LET hits == {i \in 1..Len(seq) : seq[i].id \in QueryIds(q)}
    IN  IF hits = {} THEN 0 ELSE CHOOSE i \in hits : \A j \in hits : i <= j

\* index of the first item of seq whose id is id_, 0 when none
FirstWithId(seq, id_) ==
    LET hits == {i \in 1..Len(seq) : seq[i].id = id_}
    IN  IF hits = {} THEN 0 ELSE CHOOSE i \in hits : \A j \in hits : i <= j

RemoveAt(seq, i) == [j \in 1..(Len(seq) - 1) |-> IF j < i THEN seq[j] ELSE seq[j + 1]]

\* Player.find_item: the item found, NoItem for None
find_item(p, q) ==
    LET i == FirstMatch(p.inventory, q) IN IF i = 0 THEN NoItem ELSE p.inventory[i]

\* Player.remove_item_by_id: pops the first item with that id
remove_item_by_id(p, id_) ==
    LET i == FirstWithId(p.inventory, id_)
    IN  IF i = 0 THEN p ELSE [p EXCEPT !.inventory = RemoveAt(p.inventory, i)]

\* Player.add_item
add_item(p, it) == [p EXCEPT !.inventory = Append(p.inventory, it)]

-----------------------------------------------------------------------------
(* Entities *)

\* Entity.__init__ with the rewards World._create_enemy attaches.  eid
\* stands for the identity of the Entity object; Born sets it where the code
\* constructs one and stores it in a room.
MkEnemy(name, hp, atk, defense, dodge, xp, gold) ==
    [name |-> name, hp |-> hp, max_hp |-> hp, atk |-> atk, defense |-> defense,
     dodge |-> dodge, xp_reward |-> xp, gold_reward |-> gold, eid |-> 0]

\* the Entity e as a new object, told from every other by n
Born(e, n) == [e EXCEPT !.eid = n]

\* a room's enemy attribute when it is None
NoEnemy == MkEnemy("", 0, 0, 0, 0, 0, 0)

\* the templates with a Wolf of 16 hp
create_enemy_tough(kind) ==
    CASE kind = "Wolf"            -> MkEnemy(kind, 16, 5, 1, 4, 12, 8)
      [] kind = "Marsh Slime"     -> MkEnemy(kind, 12, 4, 0, 2, 10, 6)
      [] kind = "Bandit"          -> MkEnemy(kind, 18, 6, 1, 5, 14, 12)
      [] kind = "Obsidian Warden" -> MkEnemy(kind, 60, 10, 4, 4, 80, 50)
      [] OTHER                    -> MkEnemy(kind, 10, 3, 0, 2, 5, 2)

\* World._create_enemy / World._mk_enemy: the templates.  The Obsidian
\* Warden is created with explicit stats equal to its template's.
create_enemy(kind) ==
    CASE kind = "Wolf"            -> MkEnemy(kind, 14, 5, 1, 4, 12, 8)
      [] kind = "Marsh Slime"     -> MkEnemy(kind, 12, 4, 0, 2, 10, 6)
      [] kind = "Bandit"          -> MkEnemy(kind, 18, 6, 1, 5, 14, 12)
      [] kind = "Obsidian Warden" -> MkEnemy(kind, 60, 10, 4, 4, 80, 50)
      [] OTHER                    -> MkEnemy(kind, 10, 3, 0, 2, 5, 2)

\* Entity.alive
alive(e) == e.hp > 0

\* `r.enemy and r.enemy.alive()`
HasLiveEnemy(r) == r.enemy.name # "" /\ alive(r.enemy)

\* Player.__init__ followed by Game.__init__
StartPos == <<1, 1>>

InitialPlayer ==
    [hp |-> 40, max_hp |-> 40, atk |-> 6, defense |-> 2, dodge |-> 8,
     level |-> 1, xp |-> 0, xp_to_next |-> 30, pos |-> StartPos, gold |-> 30,
     inventory |-> StarterItems, equipped_weapon |-> NoItem,
     equipped_armor |-> NoItem, discovered |-> {StartPos}, quests |-> {}]

\* Player.attack_power
attack_power(p) ==
    p.atk + (IF p.equipped_weapon # NoItem THEN p.equipped_weapon.power ELSE 0)

\* Player.defense_value
defense_value(p) ==
    p.defense + (IF p.equipped_armor # NoItem THEN p.equipped_armor.power ELSE 0)

\* a level-up that leaves the threshold where it was
level_up_flat(p) ==
    [p EXCEPT !.level = @ + 1, !.max_hp = @ + 8, !.atk = @ + 2,
              !.defense = @ + 1, !.hp = p.max_hp + 8]

\* Player._level_up / Player.level_up
level_up(p) ==
    [p EXCEPT !.level = @ + 1, !.max_hp = @ + 8, !.atk = @ + 2,
              !.defense = @ + 1, !.hp = p.max_hp + 8,
              !.xp_to_next = IntTimes14(@)]

\* the loop of gain_xp with `>` for `>=`
RECURSIVE LevelLoop_strict(_)
LevelLoop_strict(p) ==
    IF p.xp > p.xp_to_next
    THEN LevelLoop_strict(level_up([p EXCEPT !.xp = @ - p.xp_to_next]))
    ELSE p

\* the while loop of Player.gain_xp
RECURSIVE LevelLoop(_)
LevelLoop(p) ==
    IF p.xp >= p.xp_to_next
    THEN LevelLoop(level_up([p EXCEPT !.xp = @ - p.xp_to_next]))
    ELSE p

\* gain_xp with `if` for `while`: one level-up at most
gain_xp_once(p, amount) ==
    LET q == [p EXCEPT !.xp = @ + amount]
    IN  IF q.xp >= q.xp_to_next THEN level_up([q EXCEPT !.xp = @ - q.xp_to_next]) ELSE q

\* Player.gain_xp
gain_xp(p, amount) == LevelLoop([p EXCEPT !.xp = @ + amount])

-----------------------------------------------------------------------------
(* The world *)

Width == 5
Height == 5
Positions == (0..(Width - 1)) \X (0..(Height - 1))

MkRoom(items, enemy, locked) == [items |-> items, enemy |-> enemy, locked |-> locked]

\* Room.special, set at generation and never changed
Special(pos) ==
    CASE pos = <<1, 2>> -> "merchant"
      [] pos = <<3, 2>> -> "riddle"
      [] OTHER          -> ""

\* World._generate / World._create_world; withKey is the outcome of
\* `random.random() < 0.9`
GenerateWorld(withKey) ==
    [pos \in Positions |->
        CASE pos = <<2, 1>> -> MkRoom(<<>>, Born(create_enemy("Wolf"), 1), FALSE)
          [] pos = <<2, 2>> ->
                MkRoom(IF withKey THEN <<AncientCoin, RustyKey>> ELSE <<AncientCoin>>,
                       NoEnemy, FALSE)
          [] pos = <<0, 1>> -> MkRoom(<<>>, Born(create_enemy("Marsh Slime"), 2), FALSE)
          [] pos = <<1, 0>> -> MkRoom(<<Herb>>, NoEnemy, FALSE)
          [] pos = <<3, 1>> -> MkRoom(<<>>, Born(create_enemy("Bandit"), 3), FALSE)
          [] pos = <<3, 2>> -> MkRoom(<<>>, NoEnemy, TRUE)
          [] pos = <<4, 1>> -> MkRoom(<<StrangeGem>>, NoEnemy, FALSE)
          [] pos = <<2, 3>> -> MkRoom(<<Fish>>, NoEnemy, FALSE)
          [] pos = <<4, 4>> -> MkRoom(<<>>, Born(create_enemy("Obsidian Warden"), 4), FALSE)
          [] OTHER          -> MkRoom(<<>>, NoEnemy, FALSE)]

\* an identity no Entity of the rooms has: what a newly constructed Entity
\* gets while the one it replaces is still referenced
FreshEid(rs) ==
    LET used == {rs[pos].enemy.eid : pos \in Positions}
    IN  CHOOSE n \in 1..(Cardinality(used) + 1) :
            n \notin used /\ \A m \in 1..(n - 1) : m \in used

Dirs == {"north", "south", "west", "east"}

Step(pos, d) ==
    CASE d = "north" -> <<pos[1], pos[2] - 1>>
      [] d = "south" -> <<pos[1], pos[2] + 1>>
      [] d = "west"  -> <<pos[1] - 1, pos[2]>>
      [] d = "east"  -> <<pos[1] + 1, pos[2]>>

\* World.neighbors: the directions that stay on the grid
neighbors(pos) == {d \in Dirs : Step(pos, d) \in Positions}

\* Game.current_room
current_room == rooms[player.pos]

\* the oids of the live Item objects; a new object differs from all of them
LiveOids(p, rs) ==
    {p.inventory[i].oid : i \in 1..Len(p.inventory)}
      \cup {p.equipped_weapon.oid, p.equipped_armor.oid}
      \cup {merchant_goods[i].oid : i \in 1..Len(merchant_goods)}
      \cup UNION {{rs[pos].items[i].oid : i \in 1..Len(rs[pos].items)} : pos \in Positions}

FreshOid(used) == CHOOSE n \in 1..(Cardinality(used) + 1) : n \notin used /\ \A m \in 1..(n - 1) : m \in used

\* the n smallest oids not in used, as a sequence
RECURSIVE FreshOids(_, _)
FreshOids(used, n) ==
    IF n = 0 THEN <<>>
    ELSE LET o == FreshOid(used) IN <<o>> \o FreshOids(used \cup {o}, n - 1)

\* the order in which World.rooms was filled (a dict keeps insertion order):
\* the named rooms, then the wilderness column by column
NamedOrder ==
    << <<1, 1>>, <<1, 2>>, <<2, 1>>, <<2, 2>>, <<0, 1>>, <<1, 0>>, <<3, 1>>,
       <<3, 2>>, <<4, 1>>, <<2, 3>> >>
Named == {NamedOrder[i] : i \in 1..Len(NamedOrder)}
OrderKey(pos) ==
    IF pos \in Named
    THEN CHOOSE i \in 1..Len(NamedOrder) : NamedOrder[i] = pos
    ELSE Len(NamedOrder) + 1 + pos[1] * Height + pos[2]

Abs(x) == IF x < 0 THEN 0 - x ELSE x
Manhattan(a, b) == Abs(a[1] - b[1]) + Abs(a[2] - b[2])

-----------------------------------------------------------------------------
(* Combat resolution *)

D20 == 1..20
Offsets == (-1)..2

\* one resolved attack: who struck, the attack and defense values used, and
\* what came of it (off and crit are drawn only when the attack is not dodged)
AttackRec(who, A, D, dodged, off, crit, dmg) ==
    [who |-> who, A |-> A, D |-> D, dodged |-> dodged, off |-> off,
     crit |-> crit, dmg |-> dmg]

\* _do_attack with the floor of the damage at 0 instead of 1
do_attack_floor0(who, A, D, dodge, roll, off, crit) ==
    IF roll <= dodge
    THEN AttackRec(who, A, D, TRUE, 0, FALSE, 0)
    ELSE LET base_dmg == Max(0, A - D + off)
         IN  AttackRec(who, A, D, FALSE, off, crit,
                       IF crit THEN IntTimes18(base_dmg) ELSE base_dmg)

\* Game._do_attack (package) from the dodge check on: roll, off, crit are
\* random.randint(1, 20), random.randint(-1, 2), random.random() < 0.12
do_attack(who, A, D, dodge, roll, off, crit) ==
    IF roll <= dodge
    THEN AttackRec(who, A, D, TRUE, 0, FALSE, 0)
    ELSE LET base_dmg == Max(1, A - D + off)
         IN  AttackRec(who, A, D, FALSE, off, crit,
                       IF crit THEN IntTimes18(base_dmg) ELSE base_dmg)

\* attack with the dodge sum compared to 24
attack_sum24(who, A, D, dodge, roll, off, crit) ==
    IF roll + dodge > 24
    THEN AttackRec(who, A, D, TRUE, 0, FALSE, 0)
    ELSE LET base0 == Max(0, A - D)
             base  == IF crit THEN IntTimes18(base0) + 2 ELSE base0
         IN  AttackRec(who, A, D, FALSE, off, crit, Max(1, base + off))

\* attack (mystic_dungeon.py)
attack(who, A, D, dodge, roll, off, crit) ==
    IF roll + dodge > 20
    THEN AttackRec(who, A, D, TRUE, 0, FALSE, 0)
    ELSE LET base0 == Max(0, A - D)
             base  == IF crit THEN IntTimes18(base0) + 2 ELSE base0
         IN  AttackRec(who, A, D, FALSE, off, crit, Max(1, base + off))

\* one attack with the given draws, by the implementation running
Strike(who, A, D, dodge, roll, off, crit) ==
    IF impl = "asteria" THEN do_attack(who, A, D, dodge, roll, off, crit)
                        ELSE attack(who, A, D, dodge, roll, off, crit)

\* every way one attack can come out: over all rolls of the d20, offsets and
\* critical draws.  A dodged attack draws nothing more, so the rolls that
\* dodge give one outcome, and the rolls that hit one per offset and draw.
Resolve(who, A, D, dodge) ==
    LET Dodging == {roll \in D20 : Strike(who, A, D, dodge, roll, 0, FALSE).dodged}
        Landing == D20 \ Dodging
    IN  (IF Dodging = {} THEN {}
         ELSE {Strike(who, A, D, dodge, CHOOSE roll \in Dodging : TRUE, 0, FALSE)})
        \cup
        (IF Landing = {} THEN {}
         ELSE {Strike(who, A, D, dodge, CHOOSE roll \in Landing : TRUE, off, crit) :
                  off \in Offsets, crit \in BOOLEAN})

\* `defender.hp -= dmg`
Hit(e, rec) == [e EXCEPT !.hp = @ - rec.dmg]

\* the player's attack on enemy e: Game._do_attack(player, enemy, True);
\* attack(player_entity, enemy) in mystic_dungeon.py
PlayerStrikes(p, e) == Resolve("player", attack_power(p), e.defense, e.dodge)

\* the enemy's attack on the player: Game._do_attack(enemy, player, False);
\* attack(enemy, player_entity) in mystic_dungeon.py
EnemyStrikes(p, e) == Resolve("enemy", e.atk, defense_value(p), p.dodge)

\* Game.cmd_attack, the victory branch: xp, then gold
\* the rewards added to the fields, with no level-up
Victory_flat(p, e) == [p EXCEPT !.xp = @ + e.xp_reward, !.gold = @ + e.gold_reward]

Victory(p, e) == [gain_xp(p, e.xp_reward) EXCEPT !.gold = @ + e.gold_reward]

\* Game.cmd_attack, the defeat branch.  The package halves hp, takes a
\* fifth of the gold and moves the player to the crossroads;
\* mystic_dungeon.py sets hp to max(1, int(max_hp / 2)), takes the gold and
\* leaves the position alone.
\* a defeat that costs a fine of 50 gold
Defeat_fine(p) ==
    IF impl = "asteria"
    THEN [p EXCEPT !.hp = p.max_hp \div 2, !.gold = @ - 50, !.pos = StartPos]
    ELSE [p EXCEPT !.hp = Max(1, p.max_hp \div 2), !.gold = @ - 50]

\* a defeat that takes the gold and leaves the player with the hp the blow
\* left
Defeat_over(p) == [p EXCEPT !.gold = @ - IntTimes02(@)]

Defeat(p) ==
    IF impl = "asteria"
    THEN [p EXCEPT !.hp = p.max_hp \div 2, !.gold = @ - IntTimes02(@),
                   !.pos = StartPos]
    ELSE [p EXCEPT !.hp = Max(1, p.max_hp \div 2), !.gold = @ - IntTimes02(@)]

\* the value of last: the command, its argument (a word or a menu number)
\* and, for a move, what Game.random_event did ("" when it was not called)
Cmd(c, a, n) == [cmd |-> c, arg |-> a, n |-> n, event |-> ""]
NoCmd == Cmd("", "", 0)

-----------------------------------------------------------------------------
(* The commands.  Game.tick reads one line when mode = "main"; the combat  *)
(* loop of the package's cmd_attack and the shop loop read their own lines *)
(* (mode = "combat", "shop").  Each action is one line read and all the    *)
(* code it runs up to the next read.                                       *)

Ready == running /\ mode = "main"

\* Game.random_event: every outcome, as [player, rooms, event].
\* Package: a message, or 1..5 gold found.  mystic_dungeon.py: an enemy may
\* wander in (when the room has no live one) and a silver coin may appear.
random_event(p, rs) ==
    IF impl = "asteria"
    THEN {[player |-> p, rooms |-> rs, event |-> ev] :
             ev \in {"none", "wind", "howling", "raven", "shadows"}}
         \cup {[player |-> [p EXCEPT !.gold = @ + found], rooms |-> rs, event |-> "gold"] :
                 found \in 1..5}
    ELSE LET Spawned ==
                 {[rooms |-> rs, event |-> "none"]}
                 \cup {[rooms |-> IF HasLiveEnemy(rs[p.pos]) THEN rs
                                  ELSE [rs EXCEPT ![p.pos].enemy =
                                                Born(create_enemy(kind), FreshEid(rs))],
                        event |-> IF HasLiveEnemy(rs[p.pos]) THEN "none" ELSE "spawn"] :
                         kind \in {"Wolf", "Bandit", "Marsh Slime"}}
             Coin(rs1) == MkItem("coin", "misc", 0, 3, FreshOid(LiveOids(p, rs1)))
         IN  {[player |-> p, rooms |-> s.rooms, event |-> s.event] : s \in Spawned}
             \cup {[player |-> p,
                    rooms |-> [s.rooms EXCEPT ![p.pos].items = Append(@, Coin(s.rooms))],
                    event |-> IF s.event = "spawn" THEN "spawn+coin" ELSE "coin"] :
                     s \in {t \in Spawned : Len(t.rooms[p.pos].items) < MaxInv}}

\* cmd_move without the test of the lock
CmdMove_unlocked(d) ==
    /\ Ready
    /\ log' = <<>>
    /\ UNCHANGED <<impl, calls, running, savefile, mode>>
    /\ IF d \notin neighbors(player.pos)
       THEN /\ last' = Cmd("move", d, 0)
            /\ UNCHANGED <<player, rooms, turn_count>>
       ELSE /\ turn_count < MaxTurn
            /\ turn_count' = turn_count + 1
            /\ LET new_pos == Step(player.pos, d)
                   moved == [player EXCEPT !.pos = new_pos,
                                           !.discovered = @ \cup {new_pos}]
               IN  \E r \in random_event(moved, rooms) :
                       /\ player' = r.player
                       /\ rooms' = r.rooms
                       /\ last' = [Cmd("move", d, 0) EXCEPT !.event = r.event]

\* cmd_move without reveal_current
CmdMove_unrevealed(d) ==
    /\ Ready
    /\ log' = <<>>
    /\ UNCHANGED <<impl, calls, running, savefile, mode>>
    /\ IF d \notin neighbors(player.pos) \/ rooms[Step(player.pos, d)].locked
       THEN /\ last' = Cmd("move", d, 0)
            /\ UNCHANGED <<player, rooms, turn_count>>
       ELSE /\ turn_count < MaxTurn
            /\ turn_count' = turn_count + 1
            /\ LET moved == [player EXCEPT !.pos = Step(player.pos, d)]
               IN  \E r \in random_event(moved, rooms) :
                       /\ player' = r.player
                       /\ rooms' = r.rooms
                       /\ last' = [Cmd("move", d, 0) EXCEPT !.event = r.event]

\* Game.cmd_move (cmd_look, which it ends with, reveals the room once more
\* and prints)
CmdMove(d) ==
    /\ Ready
    /\ log' = <<>>
    /\ UNCHANGED <<impl, calls, running, savefile, mode>>
    /\ IF d \notin neighbors(player.pos) \/ rooms[Step(player.pos, d)].locked
       THEN /\ last' = Cmd("move", d, 0)
            /\ UNCHANGED <<player, rooms, turn_count>>
       ELSE /\ turn_count < MaxTurn
            /\ turn_count' = turn_count + 1
            /\ LET new_pos == Step(player.pos, d)
                   moved == [player EXCEPT !.pos = new_pos,
                                           !.discovered = @ \cup {new_pos}]
               IN  \E r \in random_event(moved, rooms) :
                       /\ player' = r.player
                       /\ rooms' = r.rooms
                       /\ last' = [Cmd("move", d, 0) EXCEPT !.event = r.event]

\* an equip that takes whatever is not armor for a weapon
CmdEquip_any(q) ==
    /\ Ready
    /\ last' = Cmd("equip", q, 0)
    /\ log' = <<>>
    /\ UNCHANGED <<impl, calls, rooms, running, turn_count, savefile, mode>>
    /\ LET it == find_item(player, q)
       IN  player' =
             IF q = "" \/ it = NoItem THEN player
             ELSE IF it.kind = "armor" THEN [player EXCEPT !.equipped_armor = it]
             ELSE [player EXCEPT !.equipped_weapon = it]

\* Game.cmd_equip
CmdEquip(q) ==
    /\ Ready
    /\ last' = Cmd("equip", q, 0)
    /\ log' = <<>>
    /\ UNCHANGED <<impl, calls, rooms, running, turn_count, savefile, mode>>
    /\ LET it == find_item(player, q)
       IN  player' =
             IF q = "" \/ it = NoItem THEN player
             ELSE IF it.kind = "weapon" THEN [player EXCEPT !.equipped_weapon = it]
             ELSE IF it.kind = "armor" THEN [player EXCEPT !.equipped_armor = it]
             ELSE player

\* Game.cmd_unequip
CmdUnequip(what) ==
    /\ Ready
    /\ last' = Cmd("unequip", what, 0)
    /\ log' = <<>>
    /\ UNCHANGED <<impl, calls, rooms, running, turn_count, savefile, mode>>
    /\ player' =
         IF what = "weapon" THEN [player EXCEPT !.equipped_weapon = NoItem]
         ELSE IF what = "armor" THEN [player EXCEPT !.equipped_armor = NoItem]
         ELSE player

\* the locked rooms a key used at pos can open: within Manhattan distance 1
\* in the package, 2 in mystic_dungeon.py
KeyReach == IF impl = "asteria" THEN 1 ELSE 2
Unlockable(pos, rs) ==
    {q \in Positions : rs[q].locked /\ Manhattan(q, pos) <= KeyReach}

\* Game.cmd_use, as [player, rooms]: a consumable heals up to max_hp and is
\* removed; a key unlocks the first locked room in reach (in the order of
\* World.rooms) and is removed
cmd_use(p, rs, q) ==
    LET it == find_item(p, q)
        reach == Unlockable(p.pos, rs)
        target == CHOOSE t \in reach : \A u \in reach : OrderKey(t) <= OrderKey(u)
    IN  IF q = "" \/ it = NoItem THEN [player |-> p, rooms |-> rs]
        ELSE IF it.kind = "consumable"
        THEN [player |-> remove_item_by_id([p EXCEPT !.hp = Min(p.max_hp, p.hp + it.power)],
                                           it.id),
              rooms |-> rs]
        ELSE IF it.kind = "key" /\ reach # {}
        THEN [player |-> remove_item_by_id(p, it.id),
              rooms |-> [rs EXCEPT ![target].locked = FALSE]]
        ELSE [player |-> p, rooms |-> rs]

\* the `use` command at the main prompt
CmdUse(q) ==
    /\ Ready
    /\ last' = Cmd("use", q, 0)
    /\ log' = <<>>
    /\ UNCHANGED <<impl, calls, running, turn_count, savefile, mode>>
    /\ LET r == cmd_use(player, rooms, q)
       IN  player' = r.player /\ rooms' = r.rooms

\* Game.cmd_attack (package): the test of the while loop and, when the loop
\* ends, the code after it.  p1, e1 are the player and the enemy as the
\* round left them, in_combat is FALSE after a successful flee.
EndRound(p1, rs1, e1, in_combat) ==
    /\ IF in_combat /\ alive(p1) /\ alive(e1)
       THEN /\ mode' = "combat"
            /\ player' = p1
            /\ running' = running
       ELSE /\ mode' = "main"
            /\ IF ~alive(e1)
               THEN /\ player' = Victory(p1, e1)
                    \* _victory_ending
                    /\ running' = (running /\ e1.name # "Obsidian Warden")
               ELSE /\ player' = IF ~alive(p1) THEN Defeat(p1) ELSE p1
                    /\ running' = running
    /\ rooms' = [rs1 EXCEPT ![player.pos].enemy = e1]

\* Game.cmd_attack (mystic_dungeon.py): one exchange per command.  The drop
\* is `random.random() < 0.3` with a value of random.randint(1, 10).
MysticAttack ==
    LET e == current_room.enemy
    IN  \E r1 \in PlayerStrikes(player, e) :
          LET e1 == Hit(e, r1)
              rs1 == [rooms EXCEPT ![player.pos].enemy = e1]
          IN  IF ~alive(e1)
              THEN /\ player' = Victory(player, e1)
                   /\ log' = <<r1>>
                   /\ \/ rooms' = rs1
                      \/ \E v \in 1..10 :
                           /\ Len(rs1[player.pos].items) < MaxInv
                           /\ rooms' = [rs1 EXCEPT ![player.pos].items =
                                  Append(@, MkItem("loot_gold", "misc", 0, v,
                                                   FreshOid(LiveOids(player, rs1))))]
              ELSE \E r2 \in EnemyStrikes(player, e1) :
                     LET p1 == Hit(player, r2)
                     IN  /\ player' = IF ~alive(p1) THEN Defeat(p1) ELSE p1
                         /\ rooms' = rs1
                         /\ log' = <<r1, r2>>

\* cmd_attack testing only that the room has an enemy, not that it lives
CmdAttack_unchecked ==
    /\ Ready
    /\ last' = Cmd("attack", "", 0)
    /\ UNCHANGED <<impl, calls, turn_count, savefile>>
    /\ IF current_room.enemy.name = ""
       THEN log' = <<>> /\ UNCHANGED <<player, rooms, running, mode>>
       ELSE IF impl = "asteria"
       THEN log' = <<>> /\ EndRound(player, rooms, current_room.enemy, TRUE)
       ELSE MysticAttack /\ UNCHANGED <<running, mode>>

\* the `attack` command at the main prompt
CmdAttack ==
    /\ Ready
    /\ last' = Cmd("attack", "", 0)
    /\ UNCHANGED <<impl, calls, turn_count, savefile>>
    /\ IF ~HasLiveEnemy(current_room)
       THEN log' = <<>> /\ UNCHANGED <<player, rooms, running, mode>>
       ELSE IF impl = "asteria"
       THEN log' = <<>> /\ EndRound(player, rooms, current_room.enemy, TRUE)
       ELSE MysticAttack /\ UNCHANGED <<running, mode>>

InCombat == running /\ mode = "combat" /\ impl = "asteria"

\* Combat> attack with the enemy striking back even when the blow felled it
CombatAttack_retaliates ==
    /\ InCombat
    /\ last' = Cmd("combat:attack", "", 0)
    /\ UNCHANGED <<impl, calls, turn_count, savefile>>
    /\ LET e == current_room.enemy
       IN  \E r1 \in PlayerStrikes(player, e) :
             LET e1 == Hit(e, r1)
             IN  \E r2 \in EnemyStrikes(player, e1) :
                   /\ log' = <<r1, r2>>
                   /\ EndRound(Hit(player, r2), rooms, e1, TRUE)

\* Combat> attack: the player strikes; the enemy, if still alive, strikes back
CombatAttack ==
    /\ InCombat
    /\ last' = Cmd("combat:attack", "", 0)
    /\ UNCHANGED <<impl, calls, turn_count, savefile>>
    /\ LET e == current_room.enemy
       IN  \E r1 \in PlayerStrikes(player, e) :
             LET e1 == Hit(e, r1)
             IN  IF ~alive(e1)
                 THEN log' = <<r1>> /\ EndRound(player, rooms, e1, TRUE)
                 ELSE \E r2 \in EnemyStrikes(player, e1) :
                        /\ log' = <<r1, r2>>
                        /\ EndRound(Hit(player, r2), rooms, e1, TRUE)

\* Combat> use as a free action: cmd_use and no blow from the enemy
CombatUse_free(q) ==
    /\ InCombat
    /\ last' = Cmd("combat:use", q, 0)
    /\ UNCHANGED <<impl, calls, turn_count, savefile>>
    /\ LET e == current_room.enemy
           u == cmd_use(player, rooms, q)
       IN  /\ log' = <<>>
           /\ EndRound(u.player, u.rooms, e, TRUE)

\* Combat> use, then the item's name: cmd_use, then the enemy strikes
CombatUse(q) ==
    /\ InCombat
    /\ last' = Cmd("combat:use", q, 0)
    /\ UNCHANGED <<impl, calls, turn_count, savefile>>
    /\ LET e == current_room.enemy
           u == cmd_use(player, rooms, q)
       IN  \E r2 \in EnemyStrikes(u.player, e) :
             /\ log' = <<r2>>
             /\ EndRound(Hit(u.player, r2), u.rooms, e, TRUE)

\* the flee prompt with the enemy striking whether or not the flee succeeds
CombatFlee_struck ==
    /\ InCombat
    /\ UNCHANGED <<impl, calls, turn_count, savefile>>
    /\ LET e == current_room.enemy
       IN  \E r2 \in EnemyStrikes(player, e) :
             /\ log' = <<r2>>
             /\ \/ /\ last' = Cmd("combat:flee", "fled", 0)
                   /\ EndRound(Hit(player, r2), rooms, e, FALSE)
                \/ /\ last' = Cmd("combat:flee", "caught", 0)
                   /\ EndRound(Hit(player, r2), rooms, e, TRUE)

\* the flee prompt with a failed flee that costs nothing
CombatFlee_unpunished ==
    /\ InCombat
    /\ UNCHANGED <<impl, calls, turn_count, savefile>>
    /\ LET e == current_room.enemy
       IN  /\ log' = <<>>
           /\ \/ /\ last' = Cmd("combat:flee", "fled", 0)
                 /\ EndRound(player, rooms, e, FALSE)
              \/ /\ last' = Cmd("combat:flee", "caught", 0)
                 /\ EndRound(player, rooms, e, TRUE)

\* Combat> flee: `random.random() < 0.5` ends the encounter, otherwise the
\* enemy strikes
CombatFlee ==
    /\ InCombat
    /\ UNCHANGED <<impl, calls, turn_count, savefile>>
    /\ LET e == current_room.enemy
       IN  \/ /\ last' = Cmd("combat:flee", "fled", 0)
              /\ log' = <<>>
              /\ EndRound(player, rooms, e, FALSE)
           \/ /\ last' = Cmd("combat:flee", "caught", 0)
              /\ \E r2 \in EnemyStrikes(player, e) :
                   /\ log' = <<r2>>
                   /\ EndRound(Hit(player, r2), rooms, e, TRUE)

\* Combat> anything else: "Invalid action."
CombatInvalid ==
    /\ InCombat
    /\ last' = Cmd("combat:invalid", "", 0)
    /\ log' = <<>>
    /\ UNCHANGED <<impl, calls, turn_count, savefile>>
    /\ EndRound(player, rooms, current_room.enemy, TRUE)

-----------------------------------------------------------------------------
(* The shop *)

\* the price the shop's listing prints for a catalog item: int(value * 1.5)
\* in the package, the value in mystic_dungeon.py
ListedPrice(it) == IF impl = "asteria" THEN IntTimes15(it.value) ELSE it.value

\* the item a purchase puts in the inventory: Item.from_dict(item.to_dict()),
\* a new object, in the package; the catalog's own object in mystic_dungeon.py
Purchased(it, p, rs) ==
    IF impl = "asteria" THEN ItemFromDict(ItemToDict(it), FreshOid(LiveOids(p, rs)))
                        ELSE it

\* a buy that never looks at the player's gold
buy_on_credit(p, rs, c) ==
    IF c \notin 1..Len(merchant_goods) THEN p
    ELSE LET item == merchant_goods[c]
             price == IF impl = "asteria" THEN IntTimes15(item.value) ELSE item.value
         IN  add_item([p EXCEPT !.gold = @ - price], Purchased(item, p, rs))

\* Game.cmd_shop, a buy of catalog entry c (1-based); other numbers and
\* non-numbers buy nothing.  The price charged is computed here again, as
\* the code does after printing the listing.
buy(p, rs, c) ==
    IF c \notin 1..Len(merchant_goods) THEN p
    ELSE LET item == merchant_goods[c]
             price == IF impl = "asteria" THEN IntTimes15(item.value) ELSE item.value
         IN  IF p.gold >= price
             THEN add_item([p EXCEPT !.gold = @ - price], Purchased(item, p, rs))
             ELSE p

\* SelectSeq without a lambda: the inventory items that are not (by object
\* identity) the equipped weapon or armor
RECURSIVE Sellable(_, _)
Sellable(inv, p) ==
    IF inv = <<>> THEN <<>>
    ELSE (IF Head(inv).oid # p.equipped_weapon.oid /\ Head(inv).oid # p.equipped_armor.oid
          THEN <<Head(inv)>> ELSE <<>>) \o Sellable(Tail(inv), p)

\* what the sell menu lists: the unequipped items in the package, the whole
\* inventory in mystic_dungeon.py
SellMenu(p) == IF impl = "asteria" THEN Sellable(p.inventory, p) ELSE p.inventory

\* Game.cmd_shop / Game.shop_sell_menu, a sale of menu entry c.  The package
\* pays int(value * 0.6) and removes the first inventory item with the sold
\* item's id; mystic_dungeon.py pays the value and pops the entry itself.
sell(p, c) ==
    IF c \notin 1..Len(SellMenu(p)) THEN p
    ELSE LET item == SellMenu(p)[c]
         IN  IF impl = "asteria"
             THEN [remove_item_by_id(p, item.id) EXCEPT !.gold = @ + IntTimes06(item.value)]
             ELSE [p EXCEPT !.inventory = RemoveAt(@, c), !.gold = @ + item.value]

\* what the shop prints between a selection c at its buy menu and the next
\* prompt ("" for nothing).  The package's `if c.isdigit() and 1 <= int(c)
\* <= len(...)` has no else; mystic_dungeon.py answers "Invalid choice."
buy_says(p, c) ==
    IF c \in 1..Len(merchant_goods)
    THEN IF p.gold >= (IF impl = "asteria" THEN IntTimes15(merchant_goods[c].value)
                                          ELSE merchant_goods[c].value)
         THEN "bought" ELSE "not enough gold"
    ELSE IF impl = "asteria" THEN "" ELSE "invalid choice"

\* the same for a selection at the sell menu, which is not shown when there
\* is nothing to sell
sell_says(p, c) ==
    IF SellMenu(p) = <<>> THEN "nothing to sell"
    ELSE IF c \in 1..Len(SellMenu(p)) THEN "sold"
    ELSE IF impl = "asteria" THEN "" ELSE "invalid"

\* the `shop` command (and `talk` in the merchant's room)
CmdShop ==
    /\ Ready
    /\ last' = Cmd("shop", "", 0)
    /\ log' = <<>>
    /\ mode' = IF Special(player.pos) = "merchant" THEN "shop" ELSE "main"
    /\ UNCHANGED <<impl, calls, player, rooms, running, turn_count, savefile>>

InShop == running /\ mode = "shop"

\* Shop> buy, then Buy> c (package); Choice: c (mystic_dungeon.py)
ShopBuy(c) ==
    /\ InShop
    /\ last' = Cmd("shop:buy", "", c)
    /\ log' = <<>>
    /\ player' = buy(player, rooms, c)
    /\ Len(player'.inventory) <= MaxInv
    /\ UNCHANGED <<impl, calls, rooms, running, turn_count, savefile, mode>>

\* Shop> sell, then Sell> c (package); Choice: b, then Choice: c
ShopSell(c) ==
    /\ InShop
    /\ last' = Cmd("shop:sell", "", c)
    /\ log' = <<>>
    /\ player' = sell(player, c)
    /\ UNCHANGED <<impl, calls, rooms, running, turn_count, savefile, mode>>

\* Shop> leave (package); Choice: x (mystic_dungeon.py)
ShopLeave ==
    /\ InShop
    /\ last' = Cmd("shop:leave", "", 0)
    /\ log' = <<>>
    /\ mode' = "main"
    /\ UNCHANGED <<impl, calls, player, rooms, running, turn_count, savefile>>

\* any other line at the shop's prompt: "Invalid choice."
ShopInvalid ==
    /\ InShop
    /\ last' = Cmd("shop:invalid", "", 0)
    /\ log' = <<>>
    /\ UNCHANGED <<impl, calls, player, rooms, running, turn_count, savefile, mode>>

\* Game.cmd_take: the first item on the ground that the word matches
CmdTake(q) ==
    /\ Ready
    /\ last' = Cmd("take", q, 0)
    /\ log' = <<>>
    /\ UNCHANGED <<impl, calls, running, turn_count, savefile, mode>>
    /\ LET i == FirstMatch(current_room.items, q)
       IN  IF q = "" \/ i = 0
           THEN UNCHANGED <<player, rooms>>
           ELSE /\ player' = add_item(player, current_room.items[i])
                /\ rooms' = [rooms EXCEPT ![player.pos].items = RemoveAt(@, i)]

-----------------------------------------------------------------------------
(* Quests, talking *)

LostHerb(done) == [id |-> "lost_herb", done |-> done]

\* Game.cmd_talk.  At the merchant's it opens the shop; beside a live enemy
\* the package starts the fight and mystic_dungeon.py only prints; elsewhere
\* the wanderer gives the quest, or takes the herb for 15 gold.
CmdTalk ==
    /\ Ready
    /\ last' = Cmd("talk", "", 0)
    /\ log' = <<>>
    /\ UNCHANGED <<impl, calls, turn_count, savefile>>
    /\ IF Special(player.pos) = "merchant"
       THEN mode' = "shop" /\ UNCHANGED <<player, rooms, running>>
       ELSE IF HasLiveEnemy(current_room)
       THEN IF impl = "asteria"
            THEN EndRound(player, rooms, current_room.enemy, TRUE)
            ELSE UNCHANGED <<player, rooms, running, mode>>
       ELSE /\ UNCHANGED <<rooms, running, mode>>
            /\ player' =
                 IF LostHerb(FALSE) \notin player.quests /\ LostHerb(TRUE) \notin player.quests
                 THEN [player EXCEPT !.quests = @ \cup {LostHerb(FALSE)}]
                 ELSE IF LostHerb(FALSE) \in player.quests /\ find_item(player, "herb") # NoItem
                 THEN [remove_item_by_id(player, "herb") EXCEPT
                          !.gold = @ + 15,
                          !.quests = (@ \ {LostHerb(FALSE)}) \cup {LostHerb(TRUE)}]
                 ELSE player

-----------------------------------------------------------------------------
(* Saving and loading.  The file holds what json.dump writes of             *)
(* Player.to_dict() and the turn counter: items without their identity,     *)
(* the position and the discovered positions as lists.                      *)

\* JSON null, for an empty equipment slot
Null == ItemToDict(NoItem)

\* a list that keeps one element of the set only
ListOf_first(S) == IF S = {} THEN <<>> ELSE << CHOOSE a \in S : TRUE >>

\* list(self.discovered): the set's elements in the set's iteration order,
\* which nothing that reads the list depends on; here by column, then row
RECURSIVE ListOf(_)
ListOf(S) ==
    IF S = {} THEN <<>>
    ELSE LET first == CHOOSE a \in S :
                         \A b \in S : a[1] * Height + a[2] <= b[1] * Height + b[2]
         IN  <<first>> \o ListOf(S \ {first})

\* Player.to_dict
PlayerToDict(p) ==
    [hp |-> p.hp, max_hp |-> p.max_hp, atk |-> p.atk, defense |-> p.defense,
     dodge |-> p.dodge, level |-> p.level, xp |-> p.xp, xp_to_next |-> p.xp_to_next,
     pos |-> <<p.pos[1], p.pos[2]>>, gold |-> p.gold,
     inventory |-> [i \in 1..Len(p.inventory) |-> ItemToDict(p.inventory[i])],
     equipped_weapon |-> IF p.equipped_weapon # NoItem THEN ItemToDict(p.equipped_weapon)
                                                        ELSE Null,
     equipped_armor |-> IF p.equipped_armor # NoItem THEN ItemToDict(p.equipped_armor)
                                                      ELSE Null,
     quests |-> p.quests, discovered |-> ListOf(p.discovered)]

\* Player.from_dict: a new Player whose items, the equipped ones too, are
\* new objects (oids outside used)
PlayerFromDict(d, used) ==
    LET n == Len(d.inventory)
        oids == FreshOids(used, n + 2)
    IN  [hp |-> d.hp, max_hp |-> d.max_hp, atk |-> d.atk, defense |-> d.defense,
         dodge |-> d.dodge, level |-> d.level, xp |-> d.xp, xp_to_next |-> d.xp_to_next,
         pos |-> <<d.pos[1], d.pos[2]>>, gold |-> d.gold,
         inventory |-> [i \in 1..n |-> ItemFromDict(d.inventory[i], oids[i])],
         equipped_weapon |-> IF d.equipped_weapon # Null
                             THEN ItemFromDict(d.equipped_weapon, oids[n + 1]) ELSE NoItem,
         equipped_armor |-> IF d.equipped_armor # Null
                            THEN ItemFromDict(d.equipped_armor, oids[n + 2]) ELSE NoItem,
         quests |-> d.quests,
         discovered |-> {d.discovered[i] : i \in 1..Len(d.discovered)}]

\* the oids of the items that outlive the Player object: the catalog's and
\* those lying in the rooms
WorldOids(rs) ==
    LiveOids([inventory |-> <<>>, equipped_weapon |-> NoItem, equipped_armor |-> NoItem], rs)

\* Game.save
CmdSave ==
    /\ Ready
    /\ last' = Cmd("save", "", 0)
    /\ log' = <<>>
    /\ savefile' = << [player |-> PlayerToDict(player), turn |-> turn_count] >>
    /\ UNCHANGED <<impl, calls, player, rooms, running, turn_count, mode>>

\* what may have happened to a written file: cut short (json.load raises
\* JSONDecodeError), the "player" key gone (data["player"] raises KeyError),
\* an item's "name" gone (Item.from_dict raises KeyError)
Damages == {"truncated", "no player", "item without name"}

\* Game.load.  Reading a damaged file raises before anything is assigned;
\* the package catches the exception (`except Exception`), in
\* mystic_dungeon.py it leaves load, tick and start, whose try only catches
\* KeyboardInterrupt and EOFError: the process ends with a traceback
\* (mode "crashed").
load ==
    /\ UNCHANGED <<impl, calls, rooms, running, savefile>>
    /\ IF savefile = <<>>
       THEN mode' = "main" /\ UNCHANGED <<player, turn_count>>
       ELSE IF Len(savefile) = 2
       THEN /\ UNCHANGED <<player, turn_count>>
            /\ mode' = IF impl = "asteria" THEN "main" ELSE "crashed"
       ELSE /\ player' = PlayerFromDict(savefile[1].player, WorldOids(rooms))
            /\ turn_count' = savefile[1].turn
            /\ mode' = "main"

\* the `load` command at the main prompt
CmdLoad ==
    /\ Ready
    /\ last' = Cmd("load", "", 0)
    /\ log' = <<>>
    /\ load

-----------------------------------------------------------------------------
(* The other commands and the dispatch of a line *)

\* a command that only prints: help, map, inventory, inspect, stats and
\* quests, and the replies of tick to an empty line ("empty"), to move or go
\* without a direction and to a verb it does not know ("unknown")
CmdShow(c, arg) ==
    /\ Ready
    /\ last' = Cmd(c, arg, 0)
    /\ log' = <<>>
    /\ UNCHANGED <<impl, calls, player, rooms, running, turn_count, savefile, mode>>

\* Game.cmd_look: reveal_current, then printing
CmdLook ==
    /\ Ready
    /\ last' = Cmd("look", "", 0)
    /\ log' = <<>>
    /\ player' = [player EXCEPT !.discovered = @ \cup {player.pos}]
    /\ UNCHANGED <<impl, calls, rooms, running, turn_count, savefile, mode>>

\* quit with the flag left as it is
CmdQuit_stays ==
    /\ Ready
    /\ last' = Cmd("quit", "", 0)
    /\ log' = <<>>
    /\ UNCHANGED <<impl, calls, player, rooms, running, turn_count, savefile, mode>>

\* the quit / exit branch of tick
CmdQuit ==
    /\ Ready
    /\ last' = Cmd("quit", "", 0)
    /\ log' = <<>>
    /\ running' = FALSE
    /\ UNCHANGED <<impl, calls, player, rooms, turn_count, savefile, mode>>

\* Game.cmd_drop; only the package refuses an equipped item (`==` of two
\* Items is identity)
CmdDrop(q) ==
    /\ Ready
    /\ last' = Cmd("drop", q, 0)
    /\ log' = <<>>
    /\ UNCHANGED <<impl, calls, running, turn_count, savefile, mode>>
    /\ LET it == find_item(player, q)
       IN  IF \/ q = ""
              \/ it = NoItem
              \/ impl = "asteria" /\ it \in {player.equipped_weapon, player.equipped_armor}
           THEN UNCHANGED <<player, rooms>>
           ELSE /\ Len(current_room.items) < MaxInv
                /\ player' = remove_item_by_id(player, it.id)
                /\ rooms' = [rooms EXCEPT ![player.pos].items = Append(@, it)]

\* Game.cmd_riddle up to its prompt.  The package asks in a locked riddle
\* room, mystic_dungeon.py in any locked room.
CmdRiddle ==
    /\ Ready
    /\ last' = Cmd("riddle", "", 0)
    /\ log' = <<>>
    /\ mode' = IF current_room.locked
                  /\ (impl = "mystic" \/ Special(player.pos) = "riddle")
               THEN "riddle" ELSE "main"
    /\ UNCHANGED <<impl, calls, player, rooms, running, turn_count, savefile>>

\* an answer with 'echo' in it that moves nothing
RiddleAnswer_deaf(echo) ==
    /\ running /\ mode = "riddle"
    /\ last' = Cmd("riddle:answer", IF echo THEN "echo" ELSE "zzz", 0)
    /\ log' = <<>>
    /\ mode' = "main"
    /\ UNCHANGED <<impl, calls, player, rooms, running, turn_count, savefile>>

\* the answer to the riddle; mystic_dungeon.py leaves an Echo Gem
RiddleAnswer(echo) ==
    /\ running /\ mode = "riddle"
    /\ last' = Cmd("riddle:answer", IF echo THEN "echo" ELSE "zzz", 0)
    /\ log' = <<>>
    /\ mode' = "main"
    /\ UNCHANGED <<impl, calls, player, running, turn_count, savefile>>
    /\ rooms' =
         IF ~echo THEN rooms
         ELSE IF impl = "asteria" THEN [rooms EXCEPT ![player.pos].locked = FALSE]
         ELSE [rooms EXCEPT ![player.pos].locked = FALSE,
                            ![player.pos].items =
                                Append(@, MkItem("echo_gem", "misc", 0, 80,
                                                 FreshOid(LiveOids(player, rooms))))]

\* full_dirs of the package's tick
full_dirs(v) ==
    CASE v = "n" -> "north"
      [] v = "s" -> "south"
      [] v = "e" -> "east"
      [] v = "w" -> "west"

\* Game.tick after the line is read, stripped and lowered: verb is its first
\* word ("" for an empty line) and arg the rest.  mystic_dungeon.py has no
\* branch for n, s, e and w.
Tick(verb, arg) ==
    CASE verb = ""                          -> CmdShow("empty", "")
      [] verb \in {"help", "?"}             -> CmdShow("help", "")
      [] verb \in {"look", "l"}             -> CmdLook
      [] verb \in {"move", "go"}            -> IF arg # "" THEN CmdMove(arg)
                                                          ELSE CmdShow("move", "")
      [] verb \in Dirs                      -> CmdMove(verb)
      [] verb \in {"n", "s", "e", "w"} /\ impl = "asteria"
                                            -> CmdMove(full_dirs(verb))
      [] verb \in {"map", "m"}              -> CmdShow("map", "")
      [] verb \in {"inventory", "inv", "i"} -> CmdShow("inventory", "")
      [] verb = "inspect"                   -> CmdShow("inspect", arg)
      [] verb = "equip"                     -> CmdEquip(arg)
      [] verb = "unequip"                   -> CmdUnequip(arg)
      [] verb = "use"                       -> CmdUse(arg)
      [] verb \in {"attack", "a"}           -> CmdAttack
      [] verb = "stats"                     -> CmdShow("stats", "")
      [] verb = "save"                      -> CmdSave
      [] verb = "load"                      -> CmdLoad
      [] verb \in {"quit", "exit"}          -> CmdQuit
      [] verb \in {"take", "get"}           -> CmdTake(arg)
      [] verb = "drop"                      -> CmdDrop(arg)
      [] verb = "talk"                      -> CmdTalk
      [] verb = "shop"                      -> CmdShop
      [] verb = "quests"                    -> CmdShow("quests", "")
      [] verb = "riddle"                    -> CmdRiddle
      [] OTHER                              -> CmdShow("unknown", verb)

-----------------------------------------------------------------------------
(* The load offer, and input that ends or is interrupted *)

\* the offer to load a saved game, before the loop: in Game.start of the
\* package, in the `__main__` block of mystic_dungeon.py.  Any line but
\* `load` starts a new game.
Offer(choice) ==
    /\ running /\ mode = "offer"
    /\ last' = Cmd("offer", choice, 0)
    /\ log' = <<>>
    /\ IF choice = "load"
       THEN load
       ELSE /\ mode' = "main"
            /\ UNCHANGED <<impl, calls, player, rooms, running, turn_count, savefile>>

\* where the game waits for a line (the package's Item>, Buy> and Sell>
\* prompts are read within the steps of "combat" and "shop")
Prompts == {"offer", "main", "combat", "shop", "riddle"}

\* input() raises KeyboardInterrupt ("interrupt") or EOFError ("eof") at a
\* prompt.  Inside the loop of Game.start both are caught, the loop is left
\* and the process ends with status 0 (mode "ended").  The offer is read
\* outside that try: in the package run_game.py catches KeyboardInterrupt
\* (status 0) and, as `Exception`, EOFError ("An error occurred",
\* sys.exit(1)); in mystic_dungeon.py nothing catches either.
Signal(kind) ==
    /\ running /\ mode \in Prompts
    /\ last' = Cmd("signal", kind, 0)
    /\ log' = <<>>
    /\ mode' = IF mode # "offer" THEN "ended"
               ELSE IF impl = "asteria" /\ kind = "interrupt" THEN "ended"
               ELSE "crashed"
    /\ UNCHANGED <<impl, calls, player, rooms, running, turn_count, savefile>>

\* the program is started again after it has ended: Game.__init__ builds a
\* new player and a new world; savegame.json is what the last run left
Launch ==
    /\ ~running \/ mode \in {"ended", "crashed"}
    /\ last' = Cmd("launch", "", 0)
    /\ log' = <<>>
    /\ player' = InitialPlayer
    /\ \E key \in BOOLEAN : rooms' = GenerateWorld(key)
    /\ running' = TRUE
    /\ turn_count' = 0
    /\ mode' = "offer"
    /\ UNCHANGED <<impl, calls, savefile>>

-----------------------------------------------------------------------------
(* Start of the game *)

\* Game.__init__: the world with or without the key (the package draws it;
\* mystic_dungeon.py's random.seed(42) makes the draw 0.639 < 0.9)
Init ==
    /\ impl \in {"asteria", "mystic"}
    /\ player = InitialPlayer
    /\ \E withKey \in BOOLEAN :
          /\ impl = "mystic" => withKey
          /\ rooms = GenerateWorld(withKey)
    /\ running = TRUE
    /\ turn_count = 0
    /\ savefile = <<>>
    /\ mode = "offer"
    /\ last = NoCmd
    /\ log = <<>>
    /\ calls = <<>>

\* what the player may type after equip, use and take
ItemWords ==
    {"knife", "vest", "bread", "sword", "mail", "potion", "herb", "coin", "key",
     "gem", "fish", "zzz", ""}

\* the whole game: every command at every prompt
Next ==
    \/ \E d \in Dirs : CmdMove(d)
    \/ \E q \in ItemWords : CmdEquip(q)
    \/ \E what \in {"weapon", "armor", "zzz"} : CmdUnequip(what)
    \/ \E q \in ItemWords : CmdUse(q)
    \/ \E q \in ItemWords : CmdTake(q)
    \/ CmdTalk
    \/ CmdAttack
    \/ CombatAttack
    \/ \E q \in ItemWords : CombatUse(q)
    \/ CombatFlee
    \/ CombatInvalid
    \/ CmdShop
    \/ \E c \in 0..(MaxInv + 1) : ShopBuy(c)
    \/ \E c \in 0..(MaxInv + 1) : ShopSell(c)
    \/ ShopLeave
    \/ ShopInvalid
    \/ CmdSave
    \/ CmdLoad
    \/ \E q \in ItemWords : CmdDrop(q)
    \/ CmdLook
    \/ CmdRiddle
    \/ \E echo \in BOOLEAN : RiddleAnswer(echo)
    \/ \E c \in {"help", "map", "inventory", "inspect", "stats", "quests",
                  "empty", "move", "unknown"} : CmdShow(c, "")
    \/ CmdQuit
    \/ \E choice \in {"load", ""} : Offer(choice)
    \/ \E kind \in {"interrupt", "eof"} : Signal(kind)

Spec == Init /\ [][Next]_vars

-----------------------------------------------------------------------------
(* Combat, from states a game reaches before a fight *)

\* the player after walking the rooms of path in order, finding no gold
Walked(p, path) ==
    [p EXCEPT !.pos = path[Len(path)],
              !.discovered = @ \cup {path[i] : i \in 1..Len(path)}]

\* the player after `equip knife` and `equip vest`
Geared(p) ==
    [p EXCEPT !.equipped_weapon = find_item(p, "knife"),
              !.equipped_armor = find_item(p, "vest")]

\* the room's enemy after a fight that left it with hp
Slain(rs, pos, hp) == [rs EXCEPT ![pos].enemy.hp = hp]

\* the player after buying the chain mail with the Ancient Coin's price and
\* putting it on: south, east, take coin, west, shop, sell 4, buy 2, leave,
\* equip mail, north, west
Mailed ==
    LET w0 == GenerateWorld(TRUE)
        w1 == [w0 EXCEPT ![<<2, 2>>].items = <<RustyKey>>]
        p1 == add_item(Walked(InitialPlayer, << <<1, 2>>, <<2, 2>> >>), AncientCoin)
        p2 == buy(sell(p1, 4), w1, 2)
        p3 == [p2 EXCEPT !.equipped_armor = find_item(p2, "mail")]
    IN  [player |-> Walked(p3, << <<1, 2>>, <<1, 1>>, <<0, 1>> >>), rooms |-> w1,
         turns |-> 5]

\* Where the fights of SpecCombat start.  Each is a state the game reaches
\* from Init by the commands named, followed by rounds in which only the
\* enemy lands blows (its strikes of 1 to 5 points reach every hp below 38)
\* until the player has hp left, and, in the package, a successful flee:
\*   east                                    -> the Wolf, nothing equipped
\*   equip knife, equip vest, east           -> the Wolf, knife and vest
\*   west                                    -> the Marsh Slime, nothing equipped
\*   the commands of Mailed                  -> the Marsh Slime, chain mail
\*   east, attack (blows of 7 + 7), west, west, attack (6 + 6), equip knife,
\*   equip vest, east, east, east            -> the Bandit, 22 xp, 44 gold
CombatStarts ==
    LET w == GenerateWorld(TRUE)
    IN  { [player |-> Walked(InitialPlayer, << <<2, 1>> >>), rooms |-> w, turns |-> 1],
          [player |-> Walked(Geared(InitialPlayer), << <<2, 1>> >>), rooms |-> w, turns |-> 1],
          [player |-> Walked(InitialPlayer, << <<0, 1>> >>), rooms |-> w, turns |-> 1],
          Mailed,
          [player |-> [Walked(Geared(InitialPlayer), << <<2, 1>>, <<0, 1>>, <<3, 1>> >>)
                          EXCEPT !.xp = 22, !.gold = 44],
           rooms |-> Slain(Slain(w, <<2, 1>>, 0), <<0, 1>>, 0), turns |-> 6] }

InitCombat ==
    /\ impl \in {"asteria", "mystic"}
    /\ \E s \in CombatStarts, hp \in 1..MaxStartHp :
          /\ player = [s.player EXCEPT !.hp = hp]
          /\ rooms = s.rooms
          /\ turn_count = s.turns
    /\ running = TRUE
    /\ savefile = <<>>
    /\ mode = "main"
    /\ last = NoCmd
    /\ log = <<>>
    /\ calls = <<>>

Words == {"bread", "zzz"}

\* the fights watched are those a player with at most MaxStartHp hp picks
NextCombat ==
    \/ player.hp <= MaxStartHp /\ CmdAttack
    \/ CombatAttack
    \/ \E q \in Words : CombatUse(q)
    \/ CombatFlee
    \/ CombatInvalid

SpecCombat == InitCombat /\ [][NextCombat]_vars

-----------------------------------------------------------------------------
(* The shop, from states a game reaches at the merchant's *)

\* Where the runs of SpecShop start, in Merchant's Way:
\*   south                          -> 30 gold and the starter items
\*   south, east, take coin, west   -> the Ancient Coin to sell as well
ShopStarts ==
    LET w == GenerateWorld(TRUE)
    IN  { [player |-> Walked(InitialPlayer, << <<1, 2>> >>), rooms |-> w, turns |-> 1],
          [player |-> add_item(Walked(InitialPlayer, << <<1, 2>>, <<2, 2>>, <<1, 2>> >>),
                               AncientCoin),
           rooms |-> [w EXCEPT ![<<2, 2>>].items = <<RustyKey>>], turns |-> 3] }

InitShop ==
    /\ impl \in {"asteria", "mystic"}
    /\ \E s \in ShopStarts :
          /\ player = s.player
          /\ rooms = s.rooms
          /\ turn_count = s.turns
    /\ running = TRUE
    /\ savefile = <<>>
    /\ mode = "main"
    /\ last = NoCmd
    /\ log = <<>>
    /\ calls = <<>>

\* the numbers typed at the shop's prompts: 0 cancels, MaxInv + 1 is on no menu
Choices == 0..(MaxInv + 1)

NextShop ==
    \/ CmdShop
    \/ \E c \in Choices : ShopBuy(c)
    \/ \E c \in Choices : ShopSell(c)
    \/ ShopLeave
    \/ ShopInvalid
    \/ \E q \in {"knife", "sword"} : CmdEquip(q)

SpecShop == InitShop /\ [][NextShop]_vars

-----------------------------------------------------------------------------
(* Moving, from the rooms beside the locked Mysterious Cave at (3, 2) *)

\* Where the runs of SpecMove start, nothing found or met on the way:
\*   east, east    -> Old Bridge (3, 1), the cave to the south
\*   south, east   -> (2, 2), the cave to the east
MoveStarts ==
    LET w == GenerateWorld(TRUE)
    IN  { [player |-> Walked(InitialPlayer, << <<2, 1>>, <<3, 1>> >>), rooms |-> w, turns |-> 2],
          [player |-> Walked(InitialPlayer, << <<1, 2>>, <<2, 2>> >>), rooms |-> w, turns |-> 2] }

InitMove ==
    /\ impl \in {"asteria", "mystic"}
    /\ \E s \in MoveStarts :
          /\ player = s.player
          /\ rooms = s.rooms
          /\ turn_count = s.turns
    /\ running = TRUE
    /\ savefile = <<>>
    /\ mode = "main"
    /\ last = NoCmd
    /\ log = <<>>
    /\ calls = <<>>

NextMove ==
    \/ \E d \in Dirs : CmdMove(d)
    \/ CmdTake("key")
    \/ CmdUse("key")

SpecMove == InitMove /\ [][NextMove]_vars

-----------------------------------------------------------------------------
(* The hunt: a wounded enemy is finished, and the player walks on past a    *)
(* dead one.  The starts are reached from Init by                           *)
(*   the commands of the Bandit's start of CombatStarts, then rounds in     *)
(*   which the player's blows leave the Bandit at most MaxFoeHp hp (in the  *)
(*   package, then a successful flee)                                       *)
(*   east, attack until the Wolf falls, west                                *)
(* with the blows of the enemies leaving the player at most MaxStartHp hp.  *)

HuntStarts ==
    LET w == GenerateWorld(TRUE)
        b == CHOOSE s \in CombatStarts : s.player.pos = <<3, 1>>
    IN  {[player |-> b.player, rooms |-> Slain(b.rooms, <<3, 1>>, h),
          turns |-> b.turns] : h \in 1..MaxFoeHp}
        \cup {[player |-> [Walked(InitialPlayer, << <<2, 1>>, <<1, 1>> >>)
                              EXCEPT !.xp = 12, !.gold = 38],
               rooms |-> Slain(w, <<2, 1>>, 0), turns |-> 2]}

InitHunt ==
    /\ impl \in {"asteria", "mystic"}
    /\ \E s \in HuntStarts, hp \in 1..MaxStartHp :
          /\ player = [s.player EXCEPT !.hp = hp]
          /\ rooms = s.rooms
          /\ turn_count = s.turns
    /\ running = TRUE
    /\ savefile = <<>>
    /\ mode = "main"
    /\ last = NoCmd
    /\ log = <<>>
    /\ calls = <<>>

\* the player attacks where the enemy is wounded or dead, and leaves the
\* others alone
NextHunt ==
    \/ current_room.enemy.hp <= MaxFoeHp /\ CmdAttack
    \/ CombatAttack
    \/ CombatFlee
    \/ \E d \in Dirs : CmdMove(d)

SpecHunt == InitHunt /\ [][NextHunt]_vars

-----------------------------------------------------------------------------
(* The end of the game: the player stands before the Obsidian Warden after  *)
(* equip knife, equip vest, east, east, east, south, south, south and       *)
(* rounds (in the package with flights, or defeats and the walk back) that  *)
(* left the Warden at most MaxFoeHp hp and the player at most MaxStartHp,   *)
(* and types lines at the main prompt or fights on.                         *)

InitEnd ==
    /\ impl \in {"asteria", "mystic"}
    /\ \E h \in 1..MaxFoeHp, hp \in 1..MaxStartHp :
          /\ player = [Walked(Geared(InitialPlayer),
                              << <<2, 1>>, <<3, 1>>, <<4, 1>>, <<4, 2>>, <<4, 3>>,
                                 <<4, 4>> >>) EXCEPT !.hp = hp]
          /\ rooms = Slain(GenerateWorld(TRUE), <<4, 4>>, h)
    /\ turn_count = 6
    /\ running = TRUE
    /\ savefile = <<>>
    /\ mode = "main"
    /\ last = NoCmd
    /\ log = <<>>
    /\ calls = <<>>

\* the verbs typed before the Warden
EndVerbs == {"quit", "exit", "attack", "a", "look", "stats", "dance", ""}

NextEnd ==
    \/ \E verb \in EndVerbs : Tick(verb, "")
    \/ CombatAttack
    \/ CombatFlee

SpecEnd == InitEnd /\ [][NextEnd]_vars

-----------------------------------------------------------------------------
(* Lines typed in their short and long forms, from the second start of      *)
(* MoveStarts (the coin and the key on the ground) and from the Bandit's    *)
(* start of HuntStarts with at most MaxStartHp hp left.                     *)

ShortDirs == {"n", "s", "e", "w"}

\* the pairs of lines tick is to treat alike; a line is <<verb, argument>>
Aliases ==
    {<< <<sd, "">>, <<full_dirs(sd), "">> >> : sd \in ShortDirs}
    \cup {<< <<v, sd>>, <<v, full_dirs(sd)>> >> : v \in {"move", "go"}, sd \in ShortDirs}
    \cup {<< <<v, d>>, <<d, "">> >> : v \in {"move", "go"}, d \in Dirs}
    \cup {<< <<"get", q>>, <<"take", q>> >> : q \in {"key", ""}}
    \cup { << <<"l", "">>, <<"look", "">> >>,
           << <<"m", "">>, <<"map", "">> >>,
           << <<"i", "">>, <<"inventory", "">> >>,
           << <<"inv", "">>, <<"inventory", "">> >>,
           << <<"a", "">>, <<"attack", "">> >>,
           << <<"exit", "">>, <<"quit", "">> >> }

Lines == {pr[1] : pr \in Aliases} \cup {pr[2] : pr \in Aliases}

InitTick ==
    /\ impl \in {"asteria", "mystic"}
    /\ \/ \E s \in {t \in MoveStarts : t.player.pos = <<2, 2>>} :
             /\ player = s.player
             /\ rooms = s.rooms
             /\ turn_count = s.turns
       \/ \E s \in {t \in HuntStarts : t.player.pos = <<3, 1>>}, hp \in 1..MaxStartHp :
             /\ player = [s.player EXCEPT !.hp = hp]
             /\ rooms = s.rooms
             /\ turn_count = s.turns
    /\ running = TRUE
    /\ savefile = <<>>
    /\ mode = "main"
    /\ last = NoCmd
    /\ log = <<>>
    /\ calls = <<>>

\* the player attacks with at most MaxStartHp hp left and where the enemy
\* is wounded or dead, and leaves the others alone
NextTick ==
    \E l \in Lines :
        /\ l[1] \in {"a", "attack"} =>
               (current_room.enemy.hp <= MaxFoeHp /\ player.hp <= MaxStartHp)
        /\ Tick(l[1], l[2])

SpecTick == InitTick /\ [][NextTick]_vars

-----------------------------------------------------------------------------
(* The purse: every way gold comes and goes.  The starts are                *)
(*   the second start of ShopStarts: the shop, with the Ancient Coin        *)
(*   the Bandit's start of CombatStarts with at most MaxStartHp hp left:    *)
(*   victory and defeat                                                     *)
(*   north, take herb, south, north: the herb in hand, the quest not yet    *)
(*   given, for talk and talk again                                         *)
(*   the second start of MoveStarts: a move, and what it finds              *)

PurseStarts ==
    LET w == GenerateWorld(TRUE)
    IN  {s \in ShopStarts : s.turns = 3}
        \cup {[s EXCEPT !.player.hp = hp] :
                 s \in {t \in CombatStarts : t.player.pos = <<3, 1>>}, hp \in 1..MaxStartHp}
        \cup {[player |-> add_item(Walked(InitialPlayer, << <<1, 0>>, <<1, 1>>, <<1, 0>> >>),
                                   Herb),
               rooms |-> [w EXCEPT ![<<1, 0>>].items = <<>>], turns |-> 3]}
        \cup {s \in MoveStarts : s.player.pos = <<2, 2>>}

InitPurse ==
    /\ impl \in {"asteria", "mystic"}
    /\ \E s \in PurseStarts :
          /\ player = s.player
          /\ rooms = s.rooms
          /\ turn_count = s.turns
    /\ running = TRUE
    /\ savefile = <<>>
    /\ mode = "main"
    /\ last = NoCmd
    /\ log = <<>>
    /\ calls = <<>>

\* the fights watched are those a player with at most MaxStartHp hp picks;
\* the shop's numbers are those of the catalog and of the first entry to sell
NextPurse ==
    \/ CmdShop
    \/ \E c \in 1..Len(merchant_goods) : ShopBuy(c)
    \/ ShopSell(1)
    \/ ShopLeave
    \/ player.hp <= MaxStartHp /\ CmdAttack
    \/ player.hp <= MaxStartHp /\ CombatAttack
    \/ CmdTalk
    \/ \E d \in Dirs : CmdMove(d)

SpecPurse == InitPurse /\ [][NextPurse]_vars

-----------------------------------------------------------------------------
(* Interrupts and the end of input: the program is started, with or without *)
(* a file saved by an earlier new game, and the player answers the offer,   *)
(* walks south to the merchant or east to the Wolf, opens the shop or (in   *)
(* the package, which alone has a combat prompt) the fight; at every prompt *)
(* the input may be interrupted or end.                                     *)

InitSignal ==
    /\ impl \in {"asteria", "mystic"}
    /\ player = InitialPlayer
    /\ rooms = GenerateWorld(TRUE)
    /\ running = TRUE
    /\ turn_count = 0
    /\ savefile \in {<<>>, << [player |-> PlayerToDict(InitialPlayer), turn |-> 0] >>}
    /\ mode = "offer"
    /\ last = NoCmd
    /\ log = <<>>
    /\ calls = <<>>

NextSignal ==
    \/ \E choice \in {"load", ""} : Offer(choice)
    \/ \E verb \in {"south", "east", "shop"} : Tick(verb, "")
    \/ impl = "asteria" /\ Tick("attack", "")
    \/ CombatInvalid
    \/ ShopInvalid
    \/ ShopLeave
    \/ \E kind \in {"interrupt", "eof"} : Signal(kind)

SpecSignal == InitSignal /\ [][NextSignal]_vars

-----------------------------------------------------------------------------
(* The Mysterious Cave.  The player stands in it after south, east, take    *)
(* key, north, east, use key, south; the game may be saved, left, started   *)
(* again and loaded, and the riddle tried at any time.                      *)

InitRiddle ==
    /\ impl \in {"asteria", "mystic"}
    /\ player = Walked(InitialPlayer,
                       << <<1, 2>>, <<2, 2>>, <<2, 1>>, <<3, 1>>, <<3, 2>> >>)
    /\ rooms = [GenerateWorld(TRUE) EXCEPT ![<<2, 2>>].items = <<AncientCoin>>,
                                           ![<<3, 2>>].locked = FALSE]
    /\ turn_count = 5
    /\ running = TRUE
    /\ savefile = <<>>
    /\ mode = "main"
    /\ last = NoCmd
    /\ log = <<>>
    /\ calls = <<>>

NextRiddle ==
    \/ \E verb \in {"riddle", "save", "load", "quit"} : Tick(verb, "")
    \/ Tick("drop", "bread")
    \/ \E echo \in BOOLEAN : RiddleAnswer(echo)
    \/ \E choice \in {"load", ""} : Offer(choice)
    \/ Launch

SpecRiddle == InitRiddle /\ [][NextRiddle]_vars

-----------------------------------------------------------------------------
(* The player's gear at the Market Crossroads: buying, selling, equipping,  *)
(* dropping, taking, using, saving and loading                              *)

InitGear ==
    /\ impl \in {"asteria", "mystic"}
    /\ player = Walked(InitialPlayer, << <<1, 2>> >>)
    /\ rooms = GenerateWorld(TRUE)
    /\ turn_count = 1
    /\ running = TRUE
    /\ savefile = <<>>
    /\ mode = "main"
    /\ last = NoCmd
    /\ log = <<>>
    /\ calls = <<>>

\* one item lies on the ground at a time, a knife is picked up by a player
\* without one, and the game is saved once
NextGear ==
    \/ CmdShop
    \/ ShopBuy(3)
    \/ ShopSell(1)
    \/ ShopLeave
    \/ \E q \in {"knife", "vest", "potion"} : CmdEquip(q)
    \/ CmdUnequip("weapon")
    \/ current_room.items = <<>> /\ CmdDrop("knife")
    \/ find_item(player, "knife") = NoItem /\ CmdTake("knife")
    \/ savefile = <<>> /\ CmdSave
    \/ CmdLoad

SpecGear == InitGear /\ [][NextGear]_vars

-----------------------------------------------------------------------------
(* The Ancient Coin, carried from the Old Ruins to the Market Crossroads:   *)
(* south, east, take coin, west.  It may be dropped, taken, sold, and the   *)
(* game saved and loaded.                                                   *)

InitCoin ==
    /\ impl \in {"asteria", "mystic"}
    /\ player = add_item(Walked(InitialPlayer, << <<1, 2>>, <<2, 2>>, <<1, 2>> >>),
                         AncientCoin)
    /\ rooms = [GenerateWorld(TRUE) EXCEPT ![<<2, 2>>].items = <<RustyKey>>]
    /\ turn_count = 3
    /\ running = TRUE
    /\ savefile = <<>>
    /\ mode = "main"
    /\ last = NoCmd
    /\ log = <<>>
    /\ calls = <<>>

\* one item lies on the ground at a time and the game is saved once
NextCoin ==
    \/ CmdShop
    \/ ShopBuy(3)
    \/ ShopSell(4)
    \/ ShopLeave
    \/ current_room.items = <<>> /\ CmdDrop("coin")
    \/ CmdTake("coin")
    \/ CmdUse("potion")
    \/ savefile = <<>> /\ CmdSave
    \/ CmdLoad

SpecCoin == InitCoin /\ [][NextCoin]_vars

-----------------------------------------------------------------------------
(* Single attacks with the draws given: the player beside the Wolf, each    *)
(* step one call of Game._do_attack / attack by either side.                *)

\* one call of Game._do_attack (package) or attack (mystic_dungeon.py) with
\* the d20 roll, the offset and the critical draw given; last.n keeps the roll
Blow(who, roll, off, crit) ==
    /\ running
    /\ HasLiveEnemy(current_room)
    /\ player.hp > 0
    /\ last' = Cmd("blow", who, roll)
    /\ LET e == current_room.enemy
           rec == IF who = "player"
                  THEN Strike(who, attack_power(player), e.defense, e.dodge, roll, off, crit)
                  ELSE Strike(who, e.atk, defense_value(player), player.dodge, roll, off, crit)
       IN  /\ log' = <<rec>>
           /\ IF who = "player"
              THEN /\ rooms' = [rooms EXCEPT ![player.pos].enemy = Hit(e, rec)]
                   /\ player' = player
              ELSE /\ player' = Hit(player, rec)
                   /\ rooms' = rooms
    /\ UNCHANGED <<impl, calls, running, turn_count, savefile, mode>>

InitDodge ==
    /\ impl \in {"asteria", "mystic"}
    /\ \E hp \in 1..MaxStartHp :
          player = [Walked(InitialPlayer, << <<2, 1>> >>) EXCEPT !.hp = hp]
    /\ rooms = [GenerateWorld(TRUE) EXCEPT ![<<2, 1>>].enemy.hp = MaxFoeHp]
    /\ turn_count = 1
    /\ running = TRUE
    /\ savefile = <<>>
    /\ mode = "main"
    /\ last = NoCmd
    /\ log = <<>>
    /\ calls = <<>>

NextDodge ==
    \E who \in {"player", "enemy"}, roll \in D20, off \in Offsets, crit \in BOOLEAN :
        Blow(who, roll, off, crit)

SpecDodge == InitDodge /\ [][NextDodge]_vars

-----------------------------------------------------------------------------
(* The fight with the Wolf under a fixed random source: the new player      *)
(* walks east and attacks; none of the player's blows is dodged or          *)
(* critical and each has offset 0.  The Wolf's blows are drawn freely.      *)

InitDuel ==
    /\ impl \in {"asteria", "mystic"}
    /\ player = Walked(InitialPlayer, << <<2, 1>> >>)
    /\ rooms = GenerateWorld(TRUE)
    /\ turn_count = 1
    /\ running = TRUE
    /\ savefile = <<>>
    /\ mode = "main"
    /\ last = NoCmd
    /\ log = <<>>
    /\ calls = <<>>

\* what the fixed source draws for the player's attacks of the step
FixedSource ==
    \A i \in DOMAIN log' :
        log'[i].who = "player" => (~log'[i].dodged /\ ~log'[i].crit /\ log'[i].off = 0)

NextDuel ==
    \/ CmdAttack /\ FixedSource
    \/ CombatAttack /\ FixedSource

SpecDuel == InitDuel /\ [][NextDuel]_vars

-----------------------------------------------------------------------------
(* Saving and loading, from states a game reaches *)

\* Where the runs of SpecSave start:
\*   the new game;
\*   east, attack until the Wolf's blows have left 33 hp (and, in the
\*   package, flee), west, north into the Sunlit Meadow where the herb lies;
\*   the commands of Mailed, which end beside the Marsh Slime.
SaveStarts ==
    LET w == GenerateWorld(TRUE)
    IN  { [player |-> InitialPlayer, rooms |-> w, turns |-> 0],
          [player |-> [Walked(InitialPlayer, << <<2, 1>>, <<1, 1>>, <<1, 0>> >>)
                          EXCEPT !.hp = 33],
           rooms |-> w, turns |-> 3],
          Mailed }

InitSave ==
    /\ impl \in {"asteria", "mystic"}
    /\ \E s \in SaveStarts :
          /\ player = s.player
          /\ rooms = s.rooms
          /\ turn_count = s.turns
    /\ running = TRUE
    /\ savefile = <<>>
    /\ mode = "main"
    /\ last = NoCmd
    /\ log = <<>>
    /\ calls = <<>>

NextSave ==
    \/ CmdSave
    \/ CmdLoad
    \/ CmdTalk
    \/ CmdTake("herb")
    \/ \E q \in {"knife", "vest"} : CmdEquip(q)
    \/ CmdUnequip("armor")
    \/ CmdUse("bread")

SpecSave == InitSave /\ [][NextSave]_vars

-----------------------------------------------------------------------------
(* Loading what an earlier game left: a game at one of SaveStarts finds no  *)
(* file, a file saved at one of SaveStarts, or such a file damaged.         *)

InitLoad ==
    /\ impl \in {"asteria", "mystic"}
    /\ \E s \in SaveStarts :
          /\ player = s.player
          /\ rooms = s.rooms
          /\ turn_count = s.turns
    /\ \E s \in SaveStarts :
          LET data == [player |-> PlayerToDict(s.player), turn |-> s.turns]
          IN  savefile \in {<<>>, <<data>>} \cup {<<data, dmg>> : dmg \in Damages}
    /\ running = TRUE
    /\ mode = "main"
    /\ last = NoCmd
    /\ log = <<>>
    /\ calls = <<>>

NextLoad ==
    \/ \E verb \in {"load", "save", "stats"} : Tick(verb, "")
    \/ CmdUse("bread")

SpecLoad == InitLoad /\ [][NextLoad]_vars

-----------------------------------------------------------------------------
(* Player.gain_xp by itself: one call, then a second, on players of every  *)
(* level up to MaxStartLevel and every xp below the level's threshold      *)

\* the player as k - 1 level-ups leave the one Game.__init__ makes
RECURSIVE Leveled(_)
Leveled(k) == IF k <= 1 THEN InitialPlayer ELSE level_up(Leveled(k - 1))

InitXp ==
    /\ impl \in {"asteria", "mystic"}
    /\ \E k \in 1..MaxStartLevel :
          \E x \in 0..(Leveled(k).xp_to_next - 1) :
             player = [Leveled(k) EXCEPT !.xp = x, !.hp = 1]
    /\ rooms = GenerateWorld(TRUE)
    /\ running = TRUE
    /\ turn_count = 0
    /\ savefile = <<>>
    /\ mode = "main"
    /\ last = NoCmd
    /\ log = <<>>
    /\ calls = <<>>

\* self.player.gain_xp(amount)
Grant(amount) ==
    /\ player' = gain_xp(player, amount)
    /\ calls' = Append(calls, [found |-> player, amount |-> amount])
    /\ last' = Cmd("gain_xp", "", amount)
    /\ UNCHANGED <<impl, rooms, running, turn_count, savefile, mode, log>>

\* the first call, and the call that follows it
GainXp(a) == calls = <<>> /\ Grant(a)
GainXpAgain(b) == Len(calls) = 1 /\ Grant(b)

NextXp ==
    \/ \E a \in 0..MaxGrant : GainXp(a)
    \/ \E b \in 0..MaxGrant : GainXpAgain(b)

SpecXp == InitXp /\ [][NextXp]_vars

-----------------------------------------------------------------------------
(* Player.gain_xp late in a long game: the player at level 29, where the   *)
(* threshold is 360535, with less than MaxGrant xp missing to level 30.    *)
(* gain_xp(901287) takes the new player to that level in one call.        *)

Veteran == Leveled(29)

InitVeteran ==
    /\ impl \in {"asteria", "mystic"}
    /\ \E x \in (Veteran.xp_to_next - MaxGrant)..(Veteran.xp_to_next - 1) :
          player = [Veteran EXCEPT !.xp = x]
    /\ rooms = GenerateWorld(TRUE)
    /\ running = TRUE
    /\ turn_count = 0
    /\ savefile = <<>>
    /\ mode = "main"
    /\ last = NoCmd
    /\ log = <<>>
    /\ calls = <<>>

NextVeteran == \E a \in 0..MaxGrant : GainXp(a)

SpecVeteran == InitVeteran /\ [][NextVeteran]_vars

-----------------------------------------------------------------------------
(* Player.gain_xp on the player of a game that is saved and loaded in       *)
(* between: up to two calls, with amounts around the thresholds             *)

Amounts == {0, 1, 29, 30, MaxGrant}

InitXpLoad ==
    /\ impl \in {"asteria", "mystic"}
    /\ \E k \in 1..MaxStartLevel :
          \E x \in {0, Leveled(k).xp_to_next - 1} :
             player = [Leveled(k) EXCEPT !.xp = x]
    /\ rooms = GenerateWorld(TRUE)
    /\ running = TRUE
    /\ turn_count = 0
    /\ savefile = <<>>
    /\ mode = "main"
    /\ last = NoCmd
    /\ log = <<>>
    /\ calls = <<>>

NextXpLoad ==
    \/ \E a \in Amounts : Len(calls) < 2 /\ Grant(a)
    \/ CmdSave
    \/ CmdLoad

SpecXpLoad == InitXpLoad /\ [][NextXpLoad]_vars

-----------------------------------------------------------------------------
(* Properties *)

\* the enemy of the room the player stands in
Foe == rooms[player.pos].enemy

\* the effective attack and defense values of an attack by who, read from
\* the state the round starts in
WeaponBonus == IF player.equipped_weapon = NoItem THEN 0 ELSE player.equipped_weapon.power
ArmorBonus == IF player.equipped_armor = NoItem THEN 0 ELSE player.equipped_armor.power
EffectiveAttack(who) == IF who = "player" THEN player.atk + WeaponBonus ELSE Foe.atk
EffectiveDefense(who) == IF who = "player" THEN Foe.defense ELSE player.defense + ArmorBonus

\* C1: every entity (the player and each enemy) has 0 <= hp <= max_hp in
\* every state; a blow larger than the hp left stores 0, never less.
C1_HpInRange ==
    /\ 0 <= player.hp /\ player.hp <= player.max_hp
    /\ \A pos \in Positions :
          rooms[pos].enemy.name # "" =>
              (0 <= rooms[pos].enemy.hp /\ rooms[pos].enemy.hp <= rooms[pos].enemy.max_hp)

\* the attacks of the step just taken that were neither dodged nor critical
PlainHits(lg) == {i \in DOMAIN lg : ~lg[i].dodged /\ ~lg[i].crit}

\* C2 (as claimed): every attack that is neither dodged nor critical takes
\* max(1, A - D + offset) from the defender, A and D being the effective
\* values: the player's attack plus weapon power against the enemy's
\* defense, the enemy's attack against the player's defense plus armor power.
C2_DamageFormula ==
    [][\A i \in PlainHits(log') :
          LET r == log'[i]
              A == EffectiveAttack(r.who)
              D == EffectiveDefense(r.who)
          IN  /\ r.dmg = Max(1, A - D + r.off)
              /\ r.who = "player" => rooms'[player.pos].enemy.hp = Foe.hp - r.dmg]_vars

\* C2 (amended): the same, with the damage max(1, A - D + offset) in the
\* package and max(1, max(0, A - D) + offset) in mystic_dungeon.py; the two
\* differ when A < D.
C2_DamageFormulaPerImpl ==
    [][\A i \in PlainHits(log') :
          LET r == log'[i]
              A == EffectiveAttack(r.who)
              D == EffectiveDefense(r.who)
          IN  /\ r.dmg = IF impl = "asteria" THEN Max(1, A - D + r.off)
                                             ELSE Max(1, Max(0, A - D) + r.off)
              /\ r.who = "player" => rooms'[player.pos].enemy.hp = Foe.hp - r.dmg]_vars

\* a plain hit with the attack below the defense has been resolved, in each
\* implementation's own way
C2_Witness ==
    \E i \in PlainHits(log) : log[i].A < log[i].D /\ log[i].off = 2

\* the player's hp when the enemy's blow of the step falls: after the item
\* of a `use` round has been used
HpAtBlow ==
    IF last'.cmd = "combat:use" THEN cmd_use(player, rooms, last'.arg).player.hp
                                ELSE player.hp

\* the step ends with a blow of the enemy that leaves the player no hp
KillingBlow ==
    /\ log' # <<>>
    /\ log'[Len(log')].who = "enemy"
    /\ HpAtBlow - log'[Len(log')].dmg <= 0

\* C6: whenever an enemy's attack (after the player's attack, after an item
\* use or after a failed flee) brings the player's hp to 0 or below, the
\* encounter ends in defeat: hp = floor(max_hp / 2), gold = the gold before
\* less floor(0.2 * gold), and the player stands at the start, (1, 1).
C6_DefeatPenalty ==
    [][KillingBlow =>
          /\ mode' = "main"
          /\ player'.hp = player.max_hp \div 2
          /\ player'.gold = player.gold - (2 * player.gold) \div 10
          /\ player'.pos = <<1, 1>>]_vars

\* C7: a flee that succeeds ends the encounter at once: no blow is resolved,
\* the player (hp, xp, gold, position and the rest) and every room's enemy
\* are as before, and the game is back at the main prompt.
C7_FleeChangesNothing ==
    [][(last'.cmd = "combat:flee" /\ last'.arg = "fled") =>
          /\ log' = <<>>
          /\ player' = player
          /\ rooms' = rooms
          /\ running' = running
          /\ mode' = "main"]_vars

\* the player has fled from an enemy that a blow had already hurt
C7_Witness ==
    /\ last.cmd = "combat:flee" /\ last.arg = "fled"
    /\ mode = "main"
    /\ Foe.hp > 0 /\ Foe.hp < Foe.max_hp

\* the player's fields that gain_xp and the level-ups write
XpFields(p) == <<p.level, p.xp, p.xp_to_next, p.max_hp, p.atk, p.defense, p.hp>>

\* C3: from a player with 0 <= xp < xp_to_next, gain_xp(a) then gain_xp(b)
\* leaves the same level, xp, xp_to_next, max_hp, atk, defense and hp as
\* one gain_xp(a + b), whenever both runs level up at least once.
C3_GainXpAdditive ==
    Len(calls) = 2 =>
        LET p0 == calls[1].found
            at_once == gain_xp(p0, calls[1].amount + calls[2].amount)
        IN  (player.level > p0.level /\ at_once.level > p0.level)
                => XpFields(player) = XpFields(at_once)

\* 50 xp, then 40, from the new player: level 3 with 18 xp
C3_Witness ==
    /\ Len(calls) = 2
    /\ calls[1].found.level = 1 /\ calls[1].found.xp = 0
    /\ calls[1].amount = 50 /\ calls[2].amount = 40
    /\ player.level = 3 /\ player.xp = 18

\* the xp that k successive level-ups take, the first at threshold thr and
\* each next one at int(1.4 * the threshold before)
RECURSIVE ThresholdSum(_, _)
ThresholdSum(thr, k) == IF k = 0 THEN 0 ELSE thr + ThresholdSum(IntTimes14(thr), k - 1)

\* C4: gain_xp(amount) levels up not at all when xp + amount < xp_to_next,
\* at least once when xp + amount >= xp_to_next, and exactly k times when
\* xp + amount covers k successive thresholds and not the one after.
C4_LevelUpCount ==
    calls # <<>> =>
        LET p == calls[Len(calls)].found
            total == p.xp + calls[Len(calls)].amount
            k == player.level - p.level
        IN  /\ total < p.xp_to_next => k = 0
            /\ total >= p.xp_to_next => k >= 1
            /\ k >= 0
            /\ ThresholdSum(p.xp_to_next, k) <= total
            /\ total < ThresholdSum(p.xp_to_next, k + 1)
            /\ player.xp = total - ThresholdSum(p.xp_to_next, k)

\* one call has crossed two thresholds
C4_Witness ==
    /\ calls # <<>>
    /\ player.level = calls[Len(calls)].found.level + 2

\* an item, or an empty slot, without its identity
Fields(it) == ItemToDict(it)

\* C5: a load that follows a save at once yields a player with the hp,
\* max_hp, atk, defense, dodge, level, xp, xp_to_next, gold, position,
\* inventory (item by item, by id, kind, power and value), equipped weapon
\* and armor (as equal items), quests and discovered positions the player
\* had at the save, and the turn counter of the save.
C5_SaveLoadRoundTrip ==
    [][(last.cmd = "save" /\ last'.cmd = "load") =>
          /\ <<player'.hp, player'.max_hp, player'.atk, player'.defense, player'.dodge>>
                = <<player.hp, player.max_hp, player.atk, player.defense, player.dodge>>
          /\ <<player'.level, player'.xp, player'.xp_to_next, player'.gold, player'.pos>>
                = <<player.level, player.xp, player.xp_to_next, player.gold, player.pos>>
          /\ Len(player'.inventory) = Len(player.inventory)
          /\ \A i \in 1..Len(player.inventory) :
                Fields(player'.inventory[i]) = Fields(player.inventory[i])
          /\ Fields(player'.equipped_weapon) = Fields(player.equipped_weapon)
          /\ Fields(player'.equipped_armor) = Fields(player.equipped_armor)
          /\ player'.quests = player.quests
          /\ player'.discovered = player.discovered
          /\ turn_count' = turn_count]_vars

\* a game has been loaded, right after its save, with a quest open, armor
\* on, the herb in the inventory and more than one position discovered
C5_Witness ==
    /\ last.cmd = "load"
    /\ savefile # <<>>
    /\ savefile[1].player = PlayerToDict(player)
    /\ player.quests # {}
    /\ player.equipped_armor # NoItem
    /\ find_item(player, "herb") # NoItem
    /\ Cardinality(player.discovered) > 1

\* the step is a buy of catalog entry last'.n
Buying == last'.cmd = "shop:buy" /\ last'.n \in 1..Len(merchant_goods)

\* C8: a buy of an item whose listed price is more than the player's gold
\* leaves the gold and the inventory (and the rest of the player, and the
\* rooms) as they were.
C8_BuyTooDear ==
    [][(Buying /\ ListedPrice(merchant_goods[last'.n]) > player.gold) =>
          /\ player'.gold = player.gold
          /\ player'.inventory = player.inventory
          /\ player' = player
          /\ rooms' = rooms]_vars

\* the Iron Sword has just been refused to a player who lacks its price
C8_Witness ==
    /\ last.cmd = "shop:buy" /\ last.n = 1
    /\ mode = "shop"
    /\ ListedPrice(merchant_goods[1]) > player.gold
    /\ player.gold > 0

\* C9: a buy with gold >= the listed price takes exactly the listed price
\* and appends one item to the inventory: a copy of the catalog's item
\* that is another object than the catalog's and than every item the
\* inventory already held, earlier purchases of the same entry included.
C9_BuyAppendsCopy ==
    [][(Buying /\ player.gold >= ListedPrice(merchant_goods[last'.n])) =>
          LET template == merchant_goods[last'.n]
              n == Len(player.inventory)
          IN  /\ player'.gold = player.gold - ListedPrice(template)
              /\ Len(player'.inventory) = n + 1
              /\ SubSeq(player'.inventory, 1, n) = player.inventory
              /\ Fields(player'.inventory[n + 1]) = Fields(template)
              /\ player'.inventory[n + 1].oid # template.oid
              /\ \A i \in 1..n :
                    player'.inventory[n + 1].oid # player.inventory[i].oid]_vars

\* C10: a move in a direction whose neighbouring room is locked leaves the
\* player's position, the discovered positions and the turn counter as they
\* were, and Game.random_event is not called (no event, no gold found,
\* nothing new in any room).
C10_LockedMove ==
    [][(/\ last'.cmd = "move"
        /\ last'.arg \in neighbors(player.pos)
        /\ rooms[Step(player.pos, last'.arg)].locked) =>
          /\ player'.pos = player.pos
          /\ player'.discovered = player.discovered
          /\ turn_count' = turn_count
          /\ last'.event = ""
          /\ player' = player
          /\ rooms' = rooms]_vars

\* the player has tried a way that is locked: south from the Old Bridge,
\* or east from (2, 2)
C10_Witness ==
    /\ last.cmd = "move"
    /\ last.arg \in neighbors(player.pos)
    /\ rooms[Step(player.pos, last.arg)].locked
    /\ Step(player.pos, last.arg) = <<3, 2>>

\* the enemy of Whispering Trees, east of the Crossroads
Wolf == rooms[<<2, 1>>].enemy

\* C11: the new player (attack 6, nothing equipped) against the Wolf (hp 14,
\* defense 1), no blow of the player dodged or critical and offset 0 each
\* time: every attack of the player takes exactly 5, the Wolf falls at the
\* third attack and not before (hp 14, 9, 4, then -1), and the victory
\* gives exactly 12 xp and 8 gold.
C11_WolfFalls ==
    /\ [](Wolf.hp \in {14, 9, 4, -1})
    /\ [][\A i \in DOMAIN log' :
             log'[i].who = "player" =>
                 /\ log'[i].dmg = 5
                 /\ Wolf'.hp = Wolf.hp - 5
                 /\ (Wolf'.hp <= 0) <=> (Wolf.hp = 4)
                 /\ IF Wolf'.hp <= 0
                    THEN player'.xp = player.xp + 12 /\ player'.gold = player.gold + 8
                    ELSE player'.xp = player.xp /\ player'.gold = player.gold]_vars

\* the third attack has felled the Wolf: 12 xp, 30 + 8 gold
C11_Witness ==
    /\ Wolf.hp = -1
    /\ log # <<>> /\ log[1].who = "player" /\ log[1].dmg = 5
    /\ player.xp = 12 /\ player.gold = 38 /\ player.level = 1

\* the step is an attack round: `attack` at the Combat> prompt of the
\* package, the attack command of mystic_dungeon.py in a live enemy's room
AttackRound ==
    /\ last'.cmd \in {"combat:attack", "attack"}
    /\ log' # <<>>
    /\ log'[1].who = "player"

\* C12: in an attack round where the player's blow leaves the enemy 0 hp or
\* less the enemy does not strike back: the blow is the round's only attack,
\* the player's hp is not reduced, and the round ends in the victory (the
\* enemy's gold is paid and the game is back at the main prompt).
C12_NoRetaliationFromTheDead ==
    [][(AttackRound /\ Foe.hp - log'[1].dmg <= 0) =>
          /\ Len(log') = 1
          /\ player'.hp >= player.hp
          /\ player'.gold = player.gold + Foe.gold_reward
          /\ mode' = "main"]_vars

\* an attack round has just felled the enemy of the room
C12_Witness ==
    /\ last.cmd \in {"combat:attack", "attack"}
    /\ Len(log) = 1 /\ log[1].who = "player" /\ ~log[1].dodged
    /\ Foe.name # "" /\ Foe.hp <= 0
    /\ mode = "main"

\* the step brings the enemy the player faces from positive hp to none
Kill ==
    /\ HasLiveEnemy(current_room)
    /\ rooms'[player.pos].enemy.eid = Foe.eid
    /\ rooms'[player.pos].enemy.hp <= 0

\* C13: on victory the player is granted exactly the enemy's xp_reward,
\* through gain_xp so that level-ups apply, and gold grows by exactly its
\* gold_reward; an enemy that is dead stays dead in every later state: no
\* room ever holds that enemy with positive hp again.
C13_VictoryRewards ==
    /\ [][Kill => player' = [gain_xp(player, Foe.xp_reward)
                               EXCEPT !.gold = player.gold + Foe.gold_reward]]_vars
    /\ [][\A pos \in Positions :
             (rooms[pos].enemy.name # "" /\ rooms[pos].enemy.hp <= 0) =>
                 \A q \in Positions :
                     rooms'[q].enemy.eid = rooms[pos].enemy.eid
                         => rooms'[q].enemy.hp <= 0]_vars

\* the Bandit has fallen to the player of 22 xp, who is now of level 2,
\* and the Wolf killed before lies dead still
C13_Witness ==
    /\ player.pos = <<3, 1>>
    /\ Foe.name = "Bandit" /\ Foe.hp <= 0
    /\ player.level = 2 /\ player.xp = 6 /\ player.gold = 56
    /\ rooms[<<2, 1>>].enemy.eid = 1 /\ rooms[<<2, 1>>].enemy.hp <= 0

\* the step is an attack command, at either prompt
AttackCommand == last'.cmd \in {"attack", "combat:attack"}

\* C14: the attack command in a room with no enemy or with a dead one starts
\* no encounter and changes no state (the player, every room with its enemy
\* and items, the turn counter, the running flag); an attack command grants
\* xp or gold only in the step that kills a live enemy, so the rewards of
\* one enemy are granted at most once.
C14_NothingToAttack ==
    /\ [][(last'.cmd = "attack" /\ ~HasLiveEnemy(current_room)) =>
             /\ player' = player
             /\ rooms' = rooms
             /\ turn_count' = turn_count
             /\ running' = running
             /\ mode' = "main"
             /\ log' = <<>>]_vars
    /\ [][(AttackCommand /\ (player'.xp # player.xp \/ player'.level # player.level
                              \/ player'.gold > player.gold)) => Kill]_vars

\* the player stands over the dead Wolf, rewarded once, having attacked it
\* again
C14_Witness ==
    /\ last.cmd = "attack"
    /\ log = <<>>
    /\ player.pos = <<2, 1>>
    /\ Foe.name = "Wolf" /\ Foe.hp <= 0
    /\ player.xp = 12
    /\ mode = "main"

\* the step kills the Obsidian Warden
BossKill == Kill /\ Foe.name = "Obsidian Warden"

NoSuchItem(q) == q = "" \/ find_item(player, q) = NoItem

\* the line of the step is an input error: an empty line, a verb tick does
\* not know, a verb without its argument, an item name that matches
\* nothing, or an invalid selection in a menu
InputError ==
    \/ last'.cmd \in {"empty", "unknown", "combat:invalid", "shop:invalid"}
    \/ last'.cmd = "move" /\ last'.arg = ""
    \/ last'.cmd \in {"equip", "use", "drop", "combat:use"} /\ NoSuchItem(last'.arg)
    \/ last'.cmd = "unequip" /\ last'.arg \notin {"weapon", "armor"}
    \/ last'.cmd = "take"
          /\ (last'.arg = "" \/ FirstMatch(current_room.items, last'.arg) = 0)
    \/ last'.cmd = "shop:buy" /\ last'.n \notin 1..Len(merchant_goods)
    \/ last'.cmd = "shop:sell" /\ last'.n \notin 1..Len(SellMenu(player))

\* C16: every user input error leaves all game state unchanged (the player
\* with stats, hp, gold, inventory, equipment, position and discovered
\* tiles, the rooms with their items and enemies, the turn counter and the
\* running flag), at the main prompt and inside the combat and shop loops.
C16_InputErrorsChangeNothing ==
    [][InputError =>
          /\ player' = player
          /\ rooms' = rooms
          /\ turn_count' = turn_count
          /\ running' = running]_vars

\* the step changes the game, not only the record of the line typed
Changed ==
    <<player, rooms, running, turn_count, savefile, mode>>'
        # <<player, rooms, running, turn_count, savefile, mode>>

\* C17: verb aliases are equivalent: from the same state and with the same
\* random draws, a short form and its long form have the same successors:
\* n/s/e/w and north/south/east/west, move <dir> and go <dir> with <dir> in
\* either form, l and look, m and map, i, inv and inventory, a and attack,
\* take and get, quit and exit.  Whatever a step of one form changes, the
\* other form can change in the same way.
C17_AliasesEquivalent ==
    [][Changed =>
          \A pr \in Aliases :
              Tick(pr[1][1], pr[1][2]) <=> Tick(pr[2][1], pr[2][2])]_vars

\* C18: in every state reachable by any sequence of commands (buying,
\* selling, victory and defeat in combat, the quest's reward, gold found on
\* the way) the player's gold is at least 0.
C18_GoldNeverNegative == player.gold >= 0

\* the last coin has gone over the merchant's counter
C18_Witness == player.gold = 0 /\ last.cmd = "shop:buy" /\ mode = "shop"

\* the step is a load that fails: no file, or a damaged one
LoadFails == last'.cmd = "load" /\ (savefile = <<>> \/ Len(savefile) = 2)

\* C19: a load that fails (the save file missing, malformed or lacking
\* required fields) leaves the player, the turn counter and the running
\* flag exactly as they were, and the command loop goes on to read the next
\* line.
C19_FailedLoadHarmless ==
    [][LoadFails =>
          /\ player' = player
          /\ turn_count' = turn_count
          /\ running' = running
          /\ mode' = "main"]_vars

\* C20: an interrupt or the end of input, at any point where the game waits
\* for a line (the load offer, the main prompt, the combat prompt, the item
\* prompt, the shop prompts, the riddle prompt), ends the command loop
\* gracefully with success status; it is never reported as a fatal error.
C20_SignalEndsGracefully ==
    [][last'.cmd = "signal" => mode' = "ended"]_vars

\* C21: across any sequence of commands other than load the discovered set
\* only grows (no coordinate is ever removed), and in every reachable state
\* it contains the player's position, also after a defeat has sent the
\* player back to the start.
C21_DiscoveredGrows ==
    /\ [](player.pos \in player.discovered)
    /\ [][last'.cmd # "load" => player.discovered \subseteq player'.discovered]_vars

\* the Bandit has beaten the player, who wakes at the start with the way to
\* the Bandit still on the map
C21_Witness ==
    /\ impl = "asteria"
    /\ log # <<>>
    /\ log[Len(log)].who = "enemy"
    /\ player.pos = StartPos
    /\ player.hp = player.max_hp \div 2
    /\ <<3, 1>> \in player.discovered

\* the player stands in a locked room
Shut == rooms[player.pos].locked

\* C22: the riddle is solvable in play: a sequence of commands leads to the
\* riddle command presenting the riddle while the Mysterious Cave is still
\* locked, and an answer containing 'echo' then sets the room's locked flag
\* to false (any other answer leaves it).  The riddle is presented exactly
\* where the player stands in the locked room, and since a move never
\* enters a locked room the player comes to stand in one only by loading,
\* in a newly started program, a game saved in the opened cave.
C22_RiddleSolvable ==
    /\ [][last'.cmd = "riddle:answer" =>
             rooms'[player.pos].locked = (rooms[player.pos].locked /\ last'.arg # "echo")]_vars
    /\ [][last'.cmd = "riddle" => ((mode' = "riddle") <=> Shut)]_vars
    /\ [][(~Shut /\ Shut') => last'.cmd \in {"load", "offer"}]_vars

\* the riddle was presented in the locked cave and 'echo' has opened it
C22_Witness ==
    /\ last.cmd = "riddle:answer"
    /\ last.arg = "echo"
    /\ player.pos = <<3, 2>>
    /\ Special(player.pos) = "riddle"
    /\ ~rooms[player.pos].locked
    /\ mode = "main"

\* the item found in the inventory is the one a slot holds: the slot's own
\* object, or, where a load has left the slot with an object of its own, the
\* inventory's item of the same fields
Worn(p, it) ==
    \E s \in {p.equipped_weapon, p.equipped_armor} :
        /\ s # NoItem
        /\ \/ s = it
           \/ /\ \A i \in 1..Len(p.inventory) : p.inventory[i] # s
              /\ ItemToDict(s) = ItemToDict(it)

\* C23: dropping an item that is currently equipped is rejected and leaves
\* the inventory, the room's ground items and both equipment slots
\* unchanged, in every reachable state, after a load and with bought copies
\* as well.
C23_EquippedDropRejected ==
    [][(/\ last'.cmd = "drop"
        /\ find_item(player, last'.arg) # NoItem
        /\ Worn(player, find_item(player, last'.arg)))
       => /\ player'.inventory = player.inventory
          /\ rooms' = rooms
          /\ player'.equipped_weapon = player.equipped_weapon
          /\ player'.equipped_armor = player.equipped_armor]_vars

\* C24: in combat, after the player chooses Use item, the enemy attacks the
\* player once in that same round, after the item's effect has been
\* applied: the round's only blow is the enemy's, struck at the player as
\* the use left them, and the player goes on with what the use left less the
\* blow (or is defeated by it).
C24_UseIsNoFreeAction ==
    [][last'.cmd = "combat:use" =>
         LET used == cmd_use(player, rooms, last'.arg).player
         IN  /\ Len(log') = 1
             /\ log'[1] \in EnemyStrikes(used, Foe)
             /\ rooms'[player.pos].enemy = Foe
             /\ IF used.hp > log'[1].dmg
                THEN player' = Hit(used, log'[1])
                ELSE player' = Defeat(Hit(used, log'[1]))]_vars

\* the bread was eaten at 4 hp and the enemy's blow then fell on the healed
\* player
C24_Witness ==
    /\ last.cmd = "combat:use"
    /\ last.arg = "bread"
    /\ find_item(player, "bread") = NoItem
    /\ Len(log) = 1
    /\ log[1].who = "enemy"
    /\ log[1].dmg > 0
    /\ player.hp = MaxStartHp + 8 - log[1].dmg
    /\ mode = "combat"

\* C25: defeat is never a game-over: immediately after the defeat handling
\* the player is alive (hp > 0), the running flag is still true, and the
\* next command is accepted (the game is back at its main prompt).
C25_DefeatIsNoGameOver ==
    [][KillingBlow => (player'.hp > 0 /\ running' /\ mode' = "main")]_vars

\* mystic_dungeon.py: the Wolf has felled the player, who wakes with half the
\* hp beside it
C25_Witness ==
    /\ impl = "mystic"
    /\ last.cmd = "attack"
    /\ log # <<>>
    /\ log[Len(log)].who = "enemy"
    /\ log[Len(log)].dmg >= MaxStartHp
    /\ player.hp = player.max_hp \div 2
    /\ player.gold < 30
    /\ running
    /\ mode = "main"

\* the item is one of the objects in the inventory list
Carried(p, it) == \E i \in 1..Len(p.inventory) : p.inventory[i] = it

\* C26: in every state reachable by equip, unequip, take, drop, buy, sell,
\* use, save and load commands, an equipped weapon or armor is a member of
\* the player's inventory: the very item held in the slot is in the list.
C26_EquippedInInventory ==
    /\ player.equipped_weapon # NoItem => Carried(player, player.equipped_weapon)
    /\ player.equipped_armor # NoItem => Carried(player, player.equipped_armor)

\* C27: in every reachable state the weapon slot is empty or holds an item
\* of kind weapon, and the armor slot is empty or holds an item of kind
\* armor; an equip command naming an item of any other kind changes neither
\* slot.
C27_SlotKinds ==
    /\ [](/\ player.equipped_weapon = NoItem \/ player.equipped_weapon.kind = "weapon"
          /\ player.equipped_armor = NoItem \/ player.equipped_armor.kind = "armor")
    /\ [][(/\ last'.cmd = "equip"
           /\ find_item(player, last'.arg) # NoItem
           /\ find_item(player, last'.arg).kind \notin {"weapon", "armor"})
          => /\ player'.equipped_weapon = player.equipped_weapon
             /\ player'.equipped_armor = player.equipped_armor]_vars

\* `equip potion` with a potion in the pack and the knife in hand
C27_Witness ==
    /\ last.cmd = "equip"
    /\ last.arg = "potion"
    /\ find_item(player, "potion") # NoItem
    /\ find_item(player, "potion").kind = "consumable"
    /\ player.equipped_weapon # NoItem
    /\ player.equipped_weapon.id = "knife"
    /\ player.equipped_armor = NoItem

\* the oids of the items of a list, and whether no object is in it twice
OidsOf(items) == {items[i].oid : i \in 1..Len(items)}
NoRepeat(items) == \A i, j \in 1..Len(items) : i # j => items[i].oid # items[j].oid

\* the items with the given id in the inventory and on the ground of the
\* rooms, as [pos, index]; the inventory stands at <<-1, -1>>
Copies(id_) ==
    {<< <<-1, -1>>, i >> : i \in {k \in 1..Len(player.inventory) : player.inventory[k].id = id_}}
      \cup UNION {{<<pos, i>> : i \in {k \in 1..Len(rooms[pos].items) : rooms[pos].items[k].id = id_}}
                    : pos \in Positions}

\* C28: after any sequence of take, drop, buy, sell, use, save and load
\* commands every item instance is held by exactly one container: never in
\* the inventory and on a room's ground at once, never in two rooms, never
\* twice in one list, and a purchased item is never the catalog's own
\* object; and there is at most one Ancient Coin across the inventory and
\* the rooms.
C28_OneContainer ==
    /\ NoRepeat(player.inventory)
    /\ \A pos \in Positions :
          /\ NoRepeat(rooms[pos].items)
          /\ OidsOf(rooms[pos].items) \cap OidsOf(player.inventory) = {}
          /\ \A other \in Positions \ {pos} :
                OidsOf(rooms[pos].items) \cap OidsOf(rooms[other].items) = {}
    /\ OidsOf(player.inventory) \cap OidsOf(merchant_goods) = {}
    /\ Cardinality(Copies("ancient_coin")) <= 1

\* the dodge stat of the defender of the step's blow
DefenderDodge == IF last'.arg = "player" THEN Foe.dodge ELSE player.dodge

\* C29: an attack is dodged exactly when the d20 roll is <= the defender's
\* dodge stat; a dodged attack changes no hp and no other state; the same
\* rule holds for every attack in the program, the player's and the
\* enemies' alike.
C29_DodgeRule ==
    [][last'.cmd = "blow" =>
          /\ log'[1].dodged <=> (last'.n <= DefenderDodge)
          /\ log'[1].dodged =>
                UNCHANGED <<impl, player, rooms, running, turn_count, savefile, mode>>]_vars

\* the d20 rolls on which a defender of the given dodge dodges, under the
\* package's rule and under that of mystic_dungeon.py
PackageDodges(dodge) == {roll \in D20 : do_attack("enemy", 0, 0, dodge, roll, 0, FALSE).dodged}
MysticDodges(dodge) == {roll \in D20 : attack("enemy", 0, 0, dodge, roll, 0, FALSE).dodged}

\* C30: the two dodge conventions of the source at the player's dodge of 8:
\* comparing the raw roll to the dodge (dodged iff roll <= dodge) dodges on
\* the rolls 1..8, adding the dodge to the roll and comparing to 20 (dodged
\* iff roll + dodge > 20) on the rolls 13..20.  Both dodge on 8 of the 20
\* rolls: the conventions differ in which rolls dodge, not in the rate.
\* Every blow at the player is dodged exactly on the rolls of the
\* convention of the implementation running.
C30_SameDodgeRate ==
    /\ [](/\ player.dodge = 8
          /\ PackageDodges(player.dodge) = 1..8
          /\ MysticDodges(player.dodge) = 13..20
          /\ Cardinality(PackageDodges(player.dodge)) = Cardinality(MysticDodges(player.dodge)))
    /\ [][(last'.cmd = "blow" /\ last'.arg = "enemy") =>
             (log'[1].dodged <=>
                 last'.n \in (IF impl = "asteria" THEN PackageDodges(player.dodge)
                                                 ELSE MysticDodges(player.dodge)))]_vars

\* mystic_dungeon.py: the Wolf's blow with a roll of 13 is dodged
C30_Witness ==
    /\ impl = "mystic"
    /\ last.cmd = "blow"
    /\ last.arg = "enemy"
    /\ last.n = 13
    /\ log[1].dodged
    /\ player.dodge = 8

\* C30 as stated: at dodge 8 the first convention dodges on 8 of the 20
\* rolls and the second on fewer
C30_SecondDodgesLess ==
    /\ Cardinality(PackageDodges(player.dodge)) = 8
    /\ Cardinality(MysticDodges(player.dodge)) < 8

\* the flat bonuses a critical hit may add
CritBonuses == 0..2

\* C31: on a critical hit the damage is computed in this order: base =
\* max(0, attack - defense); base is scaled to floor(1.8 * base) plus a flat
\* bonus; only then is the offset in [-1, 2] added and the result clamped to
\* at least 1, so that the offset is never multiplied by the critical factor.
C31_CritBeforeOffset ==
    [][(last'.cmd = "blow" /\ ~log'[1].dodged /\ log'[1].crit) =>
          \E bonus \in CritBonuses :
              log'[1].dmg =
                  Max(1, IntTimes18(Max(0, log'[1].A - log'[1].D)) + bonus + log'[1].off)]_vars

\* C32: when the attacker's effective attack is lower than the defender's
\* effective defense the base damage is taken as 0 before the offset is
\* added: a hit that is not critical deals max(1, offset), 2 with offset 2.
C32_BaseFloorBeforeOffset ==
    [][\A i \in PlainHits(log') :
          LET r == log'[i]
          IN  (r.A = EffectiveAttack(r.who) /\ EffectiveAttack(r.who) < EffectiveDefense(r.who))
                  => r.dmg = Max(1, r.off)]_vars

\* floor(1.4 * x), and the threshold after k level-ups from thr by it
Floor14(x) == (14 * x) \div 10
RECURSIVE FloorChain(_, _)
FloorChain(thr, k) == IF k = 0 THEN thr ELSE FloorChain(Floor14(thr), k - 1)
RECURSIVE FloorSum(_, _)
FloorSum(thr, k) == IF k = 0 THEN 0 ELSE thr + FloorSum(Floor14(thr), k - 1)

\* C33: each level-up performed by gain_xp changes the player by exactly
\* level + 1, max_hp + 8, atk + 2, defense + 1, hp set to the new max_hp,
\* xp_to_next set to floor(1.4 * the previous xp_to_next), with xp reduced
\* by the previous xp_to_next; several level-ups in one call compound the
\* threshold (30, 42, 58, 81, ...).
C33_LevelUpEffects ==
    calls # <<>> =>
        LET p == calls[Len(calls)].found
            a == calls[Len(calls)].amount
            k == player.level - p.level
        IN  /\ k >= 0
            /\ player.max_hp = p.max_hp + 8 * k
            /\ player.atk = p.atk + 2 * k
            /\ player.defense = p.defense + k
            /\ player.hp = IF k > 0 THEN player.max_hp ELSE p.hp
            /\ player.xp_to_next = FloorChain(p.xp_to_next, k)
            /\ player.xp = p.xp + a - FloorSum(p.xp_to_next, k)

C35_FailedFlee ==
    [][(last'.cmd = "combat:flee" /\ last'.arg = "caught") =>
          /\ Len(log') = 1
          /\ log'[1] \in EnemyStrikes(player, Foe)
          /\ rooms'[player.pos].enemy = Foe
          /\ rooms' = rooms
          /\ IF player.hp > log'[1].dmg
             THEN mode' = "combat" /\ player' = Hit(player, log'[1])
             ELSE mode' = "main" /\ player' = Defeat(Hit(player, log'[1]))]_vars

\* the flee failed, the enemy's blow landed and the fight goes on
C35_Witness ==
    /\ last.cmd = "combat:flee"
    /\ last.arg = "caught"
    /\ Len(log) = 1
    /\ log[1].who = "enemy"
    /\ log[1].dmg > 0
    /\ mode = "combat"
    /\ Foe.hp = Foe.max_hp
    /\ player.hp > 0

\* an attack of the player, at the main or the combat prompt, that fells the
\* live enemy of the room
Felling ==
    /\ CmdAttack \/ CombatAttack
    /\ Foe.hp > 0
    /\ rooms'[player.pos].enemy.hp <= 0

\* the step leaves one more item on the room's ground, a consumable or misc
Loot ==
    LET before == current_room.items
        after == rooms'[player.pos].items
    IN  /\ Len(after) = Len(before) + 1
        /\ SubSeq(after, 1, Len(before)) = before
        /\ after[Len(after)].kind \in {"consumable", "misc"}

\* C36: on victory there is a random outcome in which a bonus item of kind
\* consumable or misc is appended to the current room's ground items:
\* wherever an attack can fell the enemy, it can do so leaving such an item.
C36_LootCanDrop == (ENABLED Felling) => (ENABLED (Felling /\ Loot))

\* C37: every rejected or erroneous input produces a message before the
\* next prompt: an invalid selection in the shop's buy menu and in its sell
\* menu (0 or a number that is out of range) emits a message rather than
\* returning silently to the shop prompt.
C37_InvalidSelectionAnswered ==
    [][/\ (last'.cmd = "shop:buy" /\ last'.n \notin 1..Len(merchant_goods))
             => buy_says(player, last'.n) # ""
       /\ (last'.cmd = "shop:sell" /\ last'.n \notin 1..Len(SellMenu(player)))
             => sell_says(player, last'.n) # ""]_vars

\* C38: in every state reachable from the initial player by any sequence
\* of commands, loads of files the game wrote included, 0 <= xp < xp_to_next
\* and level >= 1 hold whenever a command has completed.
C38_XpWithinThreshold ==
    /\ 0 <= player.xp
    /\ player.xp < player.xp_to_next
    /\ player.level >= 1

\* the Obsidian Warden has just fallen and its 80 xp have taken the player
\* through more than one level-up
C38_Witness ==
    /\ last.cmd \in {"attack", "combat:attack"}
    /\ Foe.name = "Obsidian Warden"
    /\ Foe.hp <= 0
    /\ player.level >= 3

\* C39: in every state reachable by movement, defeat teleport, key use,
\* riddle and save/load of files written by the game, the room at the
\* player's position is not locked; within a run of the program a room
\* never becomes locked again once it is unlocked.
C39_NeverInLockedRoom ==
    /\ [](~rooms[player.pos].locked)
    /\ [][last'.cmd # "launch" =>
             \A q \in Positions : ~rooms[q].locked => ~rooms'[q].locked]_vars

\* the number of keys a player carries
Keys(p) == Cardinality({i \in 1..Len(p.inventory) : p.inventory[i].kind = "key"})

\* the locked rooms within Manhattan distance 1 of the player
LockedBeside == {q \in Positions : rooms[q].locked /\ Manhattan(q, player.pos) <= 1}

\* C40: using a key consumes it if and only if a locked room was unlocked by
\* that use: when a locked room lies within Manhattan distance 1 of the
\* player exactly one such room becomes unlocked and exactly one key leaves
\* the inventory; otherwise no room changes and the key stays in the
\* inventory.
C40_KeyUse ==
    [][(last'.cmd = "use" /\ last'.arg = "key" /\ Keys(player) > 0) =>
          IF LockedBeside # {}
          THEN /\ \E q \in LockedBeside :
                     rooms' = [rooms EXCEPT ![q].locked = FALSE]
               /\ Keys(player') = Keys(player) - 1
               /\ Len(player'.inventory) = Len(player.inventory) - 1
          ELSE /\ rooms' = rooms
               /\ player' = player]_vars

=============================================================================
